---- MODULE Spec2Model ----
(***************************************************************************)
(* Video player server (src/server.py): the compatibility scan, the        *)
(* user-confirmed conversion batch and the HTTP handlers that read and     *)
(* trigger them, as a state machine of the threads the server runs:        *)
(*   - the main thread (main), which starts the scan thread and serves;    *)
(*   - the scan thread (scan_videos_on_startup);                           *)
(*   - one batch thread per accepted POST /api/convert (run_conversion,    *)
(*     _convert_single_video, _verify_converted);                          *)
(*   - the HTTP handler threads, one atomic step per request.              *)
(* A step of a thread is one access to the shared state (the               *)
(* _conversion_state dict, the _to_convert global, the files on disk).     *)
(***************************************************************************)
EXTENDS Integers, Sequences, FiniteSets, Bags, TLC

(* ---- bounds of the model ---- *)
NumFiles == 2       \* video files in the course folder
MaxThreads == 2     \* batch threads ever started (accepted POST /api/convert)
MaxDur == 4         \* probed durations range over 0..MaxDur seconds
MaxDeletes == 1     \* videos deleted from the course folder by someone else

(* ---- program constants ---- *)
DurationTolerance == 2     \* server.py:188  abs(orig_dur - conv_dur) > 2.0

FileNames == <<"a.mkv", "b.avi", "c.mov", "d.ts", "e.webm">>
Files == {FileNames[k] : k \in 1..NumFiles}

\* server.py:67
COMPATIBLE_CONTAINERS == {"mov,mp4,m4a,3gp,3g2,mj2"}
\* server.py:70-72
INCOMPATIBLE_H264_PROFILES ==
    {"high 10", "high 4:2:2", "high 4:4:4", "high 10 intra",
     "high 4:2:2 intra", "high 4:4:4 intra", "high 4:4:4 predictive"}
\* server.py:75
BROWSER_COMPATIBLE_CODECS == {"h264", "aac", "mp3", "opus", "flac"}

VARIABLES
    main_pc,            \* position of main(): "init", "scan_started", "serving"
    conversion_state,   \* the _conversion_state dict
    to_convert,         \* the _to_convert global: sequence of [path, mode]
    fs,                 \* the video files on disk, by path
    temp,               \* the temporary file _converting_<pid>.mp4
    scan,               \* the scan thread: position and locals
    threads,            \* the batch threads: the bag of their positions and locals
    nvenc,              \* the machine has a working NVENC encoder
    proc,               \* an encoder run: the process, its pipes and their readers
    event               \* what the step just taken showed outside the process

vars == <<main_pc, conversion_state, to_convert, fs, temp, scan, threads, nvenc, proc, event>>

(* ---- str.lower() on the strings ffprobe reports ---- *)
Lower(s) ==
    CASE s = "High" -> "high"
      [] s = "High 10" -> "high 10"
      [] s = "Main" -> "main"
      [] s = "H264" -> "h264"
      [] s = "HEVC" -> "hevc"
      [] OTHER -> s

\* '10le' in pix_fmt or '10be' in pix_fmt, on the pixel formats ffprobe names
Has10Bit(pix_fmt) ==
    pix_fmt \in {"yuv420p10le", "yuv420p10be", "yuv422p10le", "yuv444p10le"}

(* ---- files on disk ---- *)
\* A path holds "orig" (the original video), "conv" (a converted file renamed
\* into place), "none" (deleted by the server) or "gone" (deleted by someone
\* else: the course folder is the user's).
Exists(path) == fs[path] \in {"orig", "conv"}

\* event: the HTTP response a handler step sent, or what a step of a conversion
\* ran and how they ended, compared and returned; NoEvent after every other step.
NoEvent == [kind |-> "none"]

(* ---- ffprobe output (_probe_video) ---- *)
\* {} : the prober failed, timed out or printed no JSON
NoData == [ok |-> FALSE, format_name |-> "", duration |-> 0, streams |-> <<>>]

VideoStream(codec, profile, pix) ==
    [codec_type |-> "video", codec_name |-> codec, profile |-> profile, pix_fmt |-> pix]
AudioStream(codec) ==
    [codec_type |-> "audio", codec_name |-> codec, profile |-> "", pix_fmt |-> ""]

MP4 == "mov,mp4,m4a,3gp,3g2,mj2"
MKV == "matroska,webm"

ProbeData(fmt, dur, streams) ==
    [ok |-> TRUE, format_name |-> fmt, duration |-> dur, streams |-> streams]

\* The course folder of the model: what ffprobe reports for each video when it
\* can read it. a.mkv needs a new container only, b.avi (one second long) and
\* d.ts need re-encoding, c.mov and e.webm play as they are.
FileProbes ==
    <<ProbeData(MKV, MaxDur, <<VideoStream("h264", "High", "yuv420p"), AudioStream("aac")>>),
      ProbeData("avi", 1, <<VideoStream("mpeg4", "", "yuv420p"), AudioStream("mp3")>>),
      ProbeData(MP4, MaxDur, <<VideoStream("h264", "High", "yuv420p"), AudioStream("aac")>>),
      ProbeData("mpegts", MaxDur, <<VideoStream("h264", "High 10", "yuv420p10le")>>),
      ProbeData(MP4, MaxDur, <<AudioStream("aac"), VideoStream("H264", "Main", "yuv420p")>>)>>

FileIndex(path) == CHOOSE k \in 1..Len(FileNames) : FileNames[k] = path

\* _probe_video, server.py:96-109: the JSON of ffprobe, or {} when ffprobe is
\* missing, times out, exits non-zero or the file is not there
SourceProbes(path) == {NoData} \cup (IF Exists(path) THEN {FileProbes[FileIndex(path)]} ELSE {})

\* check_video_compatibility failing closed: a file that cannot be probed is
\* queued for transcoding.
CheckVideoCompatibilityFailClosed(data) ==
    IF ~data.ok THEN "transcode"
    ELSE LET bad_container == data.format_name \notin COMPATIBLE_CONTAINERS
             needs_reencode ==
                 \E k \in 1..Len(data.streams) :
                    LET stream == data.streams[k]
                        codec == Lower(stream.codec_name)
                    IN  /\ stream.codec_type = "video"
                        /\ IF codec = "h264"
                           THEN \/ Lower(stream.profile) \in INCOMPATIBLE_H264_PROFILES
                                \/ Has10Bit(Lower(stream.pix_fmt))
                           ELSE codec \notin BROWSER_COMPATIBLE_CODECS
         IN  IF needs_reencode THEN "transcode"
             ELSE IF bad_container THEN "remux"
             ELSE "compatible"

\* check_video_compatibility with the two tests of lines 140-143 exchanged: a
\* file in another container is remuxed whatever its streams.
CheckVideoCompatibilityRemuxFirst(data) ==
    IF ~data.ok THEN "compatible"
    ELSE LET bad_container == data.format_name \notin COMPATIBLE_CONTAINERS
             needs_reencode ==
                 \E k \in 1..Len(data.streams) :
                    LET stream == data.streams[k]
                        codec == Lower(stream.codec_name)
                    IN  /\ stream.codec_type = "video"
                        /\ IF codec = "h264"
                           THEN \/ Lower(stream.profile) \in INCOMPATIBLE_H264_PROFILES
                                \/ Has10Bit(Lower(stream.pix_fmt))
                           ELSE codec \notin BROWSER_COMPATIBLE_CODECS
         IN  IF bad_container THEN "remux"
             ELSE IF needs_reencode THEN "transcode"
             ELSE "compatible"

\* server.py:112-144
CheckVideoCompatibility(data) ==
    IF ~data.ok THEN "compatible"
    ELSE LET bad_container == data.format_name \notin COMPATIBLE_CONTAINERS
             needs_reencode ==
                 \E k \in 1..Len(data.streams) :
                    LET stream == data.streams[k]
                        codec == Lower(stream.codec_name)
                    IN  /\ stream.codec_type = "video"
                        /\ IF codec = "h264"
                           THEN \/ Lower(stream.profile) \in INCOMPATIBLE_H264_PROFILES
                                \/ Has10Bit(Lower(stream.pix_fmt))
                           ELSE codec \notin BROWSER_COMPATIBLE_CODECS
         IN  IF needs_reencode THEN "transcode"
             ELSE IF bad_container THEN "remux"
             ELSE "compatible"

\* No temporary file.
NoTemp == [exists |-> FALSE, st_size |-> 0, data |-> NoData]

(* ---- initial state: module load, server.py:80-93 ---- *)
InitialConversionState ==
    [phase |-> "", current_file |-> "", current_index |-> 0, total |-> 0,
     percent |-> 0, done_count |-> 0, failed_count |-> 0, files |-> <<>>]

\* No encoder is running.
NoProcess == [pc |-> "none"]

Init ==
    /\ main_pc = "init"
    /\ conversion_state = InitialConversionState
    /\ to_convert = <<>>
    /\ fs = [p \in Files |-> "orig"]
    /\ temp = NoTemp
    /\ scan = [pc |-> "unstarted", video_files |-> <<>>, idx |-> 0, to_convert |-> <<>>,
               probe_failed |-> {}]
    /\ threads = EmptyBag
    /\ nvenc \in BOOLEAN
    /\ proc = NoProcess
    /\ event = NoEvent

(* ---- the batch threads ---- *)
\* Batch threads run the same code and have no identity the program uses:
\* threads is the bag of their local states. A step of a thread in local state
\* th replaces one copy of th by the new local state.
Running == BagToSet(threads)
Become(th, new) == threads' = (threads (-) SetToBag({th})) (+) SetToBag({new})
NumThreads == BagCardinality(threads)

NewThread ==
    [pc |-> "check", lst |-> <<>>, i |-> 0, has_nvenc |-> FALSE,
     success |-> 0, failed |-> 0]

(* ---- main(), server.py:961-971 ---- *)
\* scan_thread.start()
MainStartScan ==
    /\ main_pc = "init"
    /\ main_pc' = "scan_started"
    /\ scan' = [scan EXCEPT !.pc = "start"]
    /\ event' = NoEvent
    /\ UNCHANGED <<nvenc, proc, conversion_state, to_convert, fs, temp, threads>>

\* ThreadedHTTPServer(...).serve_forever(): requests are accepted from here on
MainServe ==
    /\ main_pc = "scan_started"
    /\ main_pc' = "serving"
    /\ event' = NoEvent
    /\ UNCHANGED <<nvenc, proc, conversion_state, to_convert, fs, temp, scan, threads>>

(* ---- scan_videos_on_startup, server.py:270-335 ---- *)
\* os.walk order: the files that exist, in directory order
RECURSIVE WalkFrom(_)
WalkFrom(k) ==
    IF k > NumFiles THEN <<>>
    ELSE IF Exists(FileNames[k]) THEN <<FileNames[k]>> \o WalkFrom(k + 1)
    ELSE WalkFrom(k + 1)
Walk == WalkFrom(1)

\* line 277
ScanStart ==
    /\ scan.pc = "start"
    /\ conversion_state' = [conversion_state EXCEPT !.phase = "scanning"]
    /\ scan' = [scan EXCEPT !.pc = "walk"]
    /\ event' = NoEvent
    /\ UNCHANGED <<nvenc, proc, main_pc, to_convert, fs, temp, threads>>

\* lines 281-297
ScanWalk ==
    /\ scan.pc = "walk"
    /\ IF Walk = <<>>
       THEN /\ conversion_state' = [conversion_state EXCEPT !.phase = "done"]
            /\ scan' = [scan EXCEPT !.pc = "exit"]
       ELSE /\ conversion_state' = [conversion_state EXCEPT !.total = Len(Walk)]
            /\ scan' = [scan EXCEPT !.pc = "check", !.video_files = Walk, !.idx = 0]
    /\ event' = NoEvent
    /\ UNCHANGED <<nvenc, proc, main_pc, to_convert, fs, temp, threads>>

\* lines 298-306: one iteration of the compatibility loop. probe_failed keeps the
\* files for which _probe_video returned {} (it is no variable of the program).
ScanCheck ==
    /\ scan.pc = "check"
    /\ scan.idx < Len(scan.video_files)
    /\ LET idx == scan.idx
           total == Len(scan.video_files)
           vf == scan.video_files[idx + 1]
       IN  /\ conversion_state' =
                [conversion_state EXCEPT !.current_index = idx + 1,
                                         !.percent = ((idx + 1) * 100) \div total]
           /\ \E data \in SourceProbes(vf) :
                LET compat == CheckVideoCompatibility(data)
                IN  scan' = [scan EXCEPT
                               !.idx = idx + 1,
                               !.to_convert =
                                   IF compat # "compatible"
                                   THEN Append(@, [path |-> vf, mode |-> compat])
                                   ELSE @,
                               !.probe_failed = IF data.ok THEN @ ELSE @ \cup {vf}]
    /\ event' = NoEvent
    /\ UNCHANGED <<nvenc, proc, main_pc, to_convert, fs, temp, threads>>

\* lines 309-331: nothing to convert, or store the list and stat every file of it
ScanStore ==
    /\ scan.pc = "check"
    /\ scan.idx = Len(scan.video_files)
    /\ IF scan.to_convert = <<>>
       THEN /\ conversion_state' = [conversion_state EXCEPT !.phase = "done"]
            /\ to_convert' = to_convert
            /\ scan' = [scan EXCEPT !.pc = "exit"]
       ELSE /\ to_convert' = scan.to_convert
            /\ conversion_state' = conversion_state
            \* fp.stat() of line 329 raises for a file that is no longer there:
            \* the thread ends with the exception
            /\ scan' = [scan EXCEPT !.pc =
                          IF \A k \in 1..Len(scan.to_convert) : Exists(scan.to_convert[k].path)
                          THEN "publish_phase" ELSE "crashed"]
    /\ event' = NoEvent
    /\ UNCHANGED <<nvenc, proc, main_pc, fs, temp, threads>>

\* The list of lines 325-331 built from the last file found to the first.
FileListReversed(lst) ==
    [k \in 1..Len(lst) |-> [name |-> lst[Len(lst) + 1 - k].path,
                            mode |-> lst[Len(lst) + 1 - k].mode]]

\* lines 325-331: file_list, one entry per file of to_convert
FileList(lst) == [k \in 1..Len(lst) |-> [name |-> lst[k].path, mode |-> lst[k].mode]]

\* line 333
ScanPublishPhase ==
    /\ scan.pc = "publish_phase"
    /\ conversion_state' = [conversion_state EXCEPT !.phase = "waiting"]
    /\ scan' = [scan EXCEPT !.pc = "publish_list"]
    /\ event' = NoEvent
    /\ UNCHANGED <<nvenc, proc, main_pc, to_convert, fs, temp, threads>>

\* Lines 334-335 followed by threading.Thread(target=run_conversion).start():
\* a scan that starts the batch by itself once the list is published.
ScanPublishListAutoStart ==
    /\ scan.pc = "publish_list"
    /\ conversion_state' = [conversion_state EXCEPT !.total = Len(scan.to_convert),
                                                    !.files = FileList(scan.to_convert)]
    /\ scan' = [scan EXCEPT !.pc = "exit"]
    /\ threads' = threads (+) SetToBag({NewThread})
    /\ event' = NoEvent
    /\ UNCHANGED <<nvenc, proc, main_pc, to_convert, fs, temp>>

\* lines 334-335
ScanPublishList ==
    /\ scan.pc = "publish_list"
    /\ conversion_state' = [conversion_state EXCEPT !.total = Len(scan.to_convert),
                                                    !.files = FileList(scan.to_convert)]
    /\ scan' = [scan EXCEPT !.pc = "exit"]
    /\ event' = NoEvent
    /\ UNCHANGED <<nvenc, proc, main_pc, to_convert, fs, temp, threads>>

(* ---- the encoder's output file, as _verify_converted examines it ---- *)
TempFile(size, data) == [exists |-> TRUE, st_size |-> size, data |-> data]

\* What an ffmpeg run can leave at the temporary path when it exits 0: an empty
\* file, a file ffprobe cannot read, a file without a video stream, a video in
\* another container, or an MP4 video of some duration.
EncoderOutputs ==
    {TempFile(0, NoData), TempFile(1, NoData),
     TempFile(1, ProbeData(MP4, 0, <<AudioStream("aac")>>))}
    \cup {TempFile(1, ProbeData(MKV, 0, <<VideoStream("h264", "High", "yuv420p")>>))}
    \cup {TempFile(1, ProbeData(MP4, d, <<VideoStream("h264", "High", "yuv420p"),
                                         AudioStream("aac")>>)) : d \in 0..MaxDur}

\* What probing the original reports during verification (line 172): its
\* duration, or {} when the probe fails or the file is not there.
OriginalProbes(path) ==
    {NoData} \cup (IF Exists(path) THEN {FileProbes[FileIndex(path)]} ELSE {})

Abs(x) == IF x < 0 THEN -x ELSE x

StreamTypes(data) == {data.streams[k].codec_type : k \in 1..Len(data.streams)}

\* _verify_converted with the duration test of line 188 one second too lenient
VerifyConvertedLenient(orig_data, converted) ==
    IF ~converted.exists THEN FALSE
    ELSE IF converted.st_size = 0 THEN FALSE
    ELSE LET conv_data == converted.data
             orig_dur == orig_data.duration
             conv_dur == conv_data.duration
         IN  IF ~conv_data.ok THEN FALSE
             ELSE IF "video" \notin StreamTypes(conv_data) THEN FALSE
             ELSE IF orig_dur > 0 /\ Abs(orig_dur - conv_dur) > DurationTolerance + 1 THEN FALSE
             ELSE IF conv_data.format_name \notin COMPATIBLE_CONTAINERS THEN FALSE
             ELSE TRUE

\* server.py:161-198
VerifyConverted(orig_data, converted) ==
    IF ~converted.exists THEN FALSE
    ELSE IF converted.st_size = 0 THEN FALSE
    ELSE LET conv_data == converted.data
             orig_dur == orig_data.duration
             conv_dur == conv_data.duration
         IN  IF ~conv_data.ok THEN FALSE
             ELSE IF "video" \notin StreamTypes(conv_data) THEN FALSE
             ELSE IF orig_dur > 0 /\ Abs(orig_dur - conv_dur) > DurationTolerance THEN FALSE
             ELSE IF conv_data.format_name \notin COMPATIBLE_CONTAINERS THEN FALSE
             ELSE TRUE

\* server.py:249: percent shown for a progress line out_time_us = time_s seconds
Progress(time_s, duration) ==
    LET pct == (time_s * 100) \div duration
    IN  IF pct > 99 THEN 99 ELSE IF pct < 0 THEN 0 ELSE pct

\* server.py:242-256: the percent left in _conversion_state by an encoder run.
\* duration is the probe of line 388; with duration 0 no progress is published.
ProgressAfterRun ==
    {conversion_state.percent}
    \cup {Progress(time_s, MaxDur) : time_s \in {0, MaxDur}}

(* ---- the batch threads: run_conversion, server.py:338-379 ---- *)
\* The file a thread is converting, and the mode the list gives it.
FilePath(th) == th.lst[th.i].path
FileMode(th) == th.lst[th.i].mode

\* A thread is inside _convert_single_video (called at line 370).
Converting(th) == th.pc \in {"encode", "verify", "unlink", "rename"}

\* line 343
BatchCheck(th) ==
    /\ th.pc = "check"
    /\ Become(th, [th EXCEPT !.pc = IF to_convert = <<>> THEN "exit" ELSE "begin"])
    /\ event' = NoEvent
    /\ UNCHANGED <<nvenc, proc, main_pc, conversion_state, to_convert, fs, temp, scan>>

\* lines 353-360 and 147-158: the hardware encoder is tried only if some file
\* needs transcoding
HasNvenc ==
    IF \E k \in 1..Len(to_convert) : to_convert[k].mode = "transcode"
    THEN nvenc ELSE FALSE

\* Lines 346-364 without line 346: a batch that never publishes 'converting'.
BatchBeginSilent(th) ==
    /\ th.pc = "begin"
    /\ conversion_state' =
         [conversion_state EXCEPT !.total = Len(to_convert),
                                  !.done_count = 0, !.failed_count = 0, !.percent = 0]
    /\ Become(th, [th EXCEPT !.pc = "loop", !.lst = to_convert, !.i = 1,
                                  !.has_nvenc = HasNvenc])
    /\ event' = NoEvent
    /\ UNCHANGED <<nvenc, proc, main_pc, to_convert, fs, temp, scan>>

\* lines 346-364: publish the batch, probe the hardware encoder once, and take
\* the list the loop iterates over
BatchBegin(th) ==
    /\ th.pc = "begin"
    /\ conversion_state' =
         [conversion_state EXCEPT !.phase = "converting", !.total = Len(to_convert),
                                  !.done_count = 0, !.failed_count = 0, !.percent = 0]
    /\ Become(th, [th EXCEPT !.pc = "loop", !.lst = to_convert, !.i = 1,
                                  !.has_nvenc = HasNvenc])
    /\ event' = NoEvent
    /\ UNCHANGED <<nvenc, proc, main_pc, to_convert, fs, temp, scan>>

\* lines 364-369: next file of the list; file_path.stat() of line 368 is outside
\* every try block, so a missing file ends the thread with the exception
BatchLoop(th) ==
    /\ th.pc = "loop"
    /\ th.i <= Len(th.lst)
    /\ conversion_state' =
         [conversion_state EXCEPT !.current_index = th.i,
                                  !.current_file = FilePath(th), !.percent = 0]
    /\ Become(th, [th EXCEPT !.pc = IF Exists(FilePath(th)) THEN "encode" ELSE "crashed"])
    /\ event' = NoEvent
    /\ UNCHANGED <<nvenc, proc, main_pc, to_convert, fs, temp, scan>>

\* lines 377-378
BatchFinish(th) ==
    /\ th.pc = "loop"
    /\ th.i > Len(th.lst)
    /\ conversion_state' = [conversion_state EXCEPT !.phase = "done"]
    /\ to_convert' = <<>>
    /\ Become(th, [th EXCEPT !.pc = "exit"])
    /\ event' = NoEvent
    /\ UNCHANGED <<nvenc, proc, main_pc, fs, temp, scan>>

(* ---- _convert_single_video, server.py:382-480 ---- *)
\* What a step of a conversion shows outside: the file, the encoder commands it
\* ran (progress label and -c:v of each) and how the last one ended ("ok": exit
\* 0, "failed": non-zero exit, "raised": an exception), the durations
\* _verify_converted compared, and what _convert_single_video returned if the
\* step returned.
ConvertEvent(path, step, runs, returned) ==
    [kind |-> "convert", path |-> path, step |-> step, runs |-> runs, ended |-> "",
     orig_dur |-> 0, conv_dur |-> 0, returned |-> returned]

\* lines 370-375 after `return True`: count the success, go to the next file
CountSuccess(th, state) ==
    /\ conversion_state' = [state EXCEPT !.done_count = th.success + 1]
    /\ Become(th, [th EXCEPT !.pc = "loop", !.i = @ + 1, !.success = @ + 1])

\* `return False` without the unlink of lines 449-450, 457-458 and 475-479: the
\* temporary file is left where it is.
CountFailureKeepsTemp(th, state) ==
    /\ temp' = temp
    /\ conversion_state' = [state EXCEPT !.failed_count = th.failed + 1]
    /\ Become(th, [th EXCEPT !.pc = "loop", !.i = @ + 1, !.failed = @ + 1])

\* lines 370-375 after `return False` (lines 451, 459, 480): the temporary file
\* has been removed; count the failure, go to the next file
CountFailure(th, state) ==
    /\ temp' = NoTemp
    /\ conversion_state' = [state EXCEPT !.failed_count = th.failed + 1]
    /\ Become(th, [th EXCEPT !.pc = "loop", !.i = @ + 1, !.failed = @ + 1])

\* lines 393-400, 409-430, 437-445: the ffmpeg runs, by progress label and -c:v
RemuxRun == [label |-> "Remuxing", vcodec |-> "copy"]
TranscodeRun(has_nvenc) ==
    IF has_nvenc THEN [label |-> "Transcoding (NVENC)", vcodec |-> "h264_nvenc"]
    ELSE [label |-> "Transcoding (x264)", vcodec |-> "libx264"]
\* line 445: cmd_sw (libx264) is built at lines 437-444, but the call passes cmd,
\* the command of the first run, under the label of the software encoder
RetryRun(has_nvenc) ==
    [label |-> "Transcoding (x264)", vcodec |-> TranscodeRun(has_nvenc).vcodec]

\* lines 408-451: the runs of mode == 'transcode' and how they end: "ok" (the
\* last run exited 0), "failed" (line 447) or "raised" (Popen raised: ffmpeg
\* could not be started)
TranscodeOutcomes(has_nvenc) ==
    LET first == TranscodeRun(has_nvenc)
    IN  {[runs |-> <<>>, result |-> "raised"],
         [runs |-> <<first>>, result |-> "ok"]}
        \cup (IF has_nvenc
              THEN {[runs |-> <<first>>, result |-> "raised"]}
                   \cup {[runs |-> <<first, RetryRun(has_nvenc)>>, result |-> r] :
                           r \in {"ok", "failed"}}
              ELSE {[runs |-> <<first>>, result |-> "failed"]})

\* Lines 391-451 with `return False` in place of the fallback of lines 402-406:
\* a stream copy that exits non-zero fails the file.
EncodeOutcomesNoFallback(mode, has_nvenc) ==
    IF mode = "remux"
    THEN {[runs |-> <<>>, result |-> "raised"],
          [runs |-> <<RemuxRun>>, result |-> "ok"],
          [runs |-> <<RemuxRun>>, result |-> "failed"]}
    ELSE TranscodeOutcomes(has_nvenc)

\* lines 391-451: all runs of one conversion
EncodeOutcomes(mode, has_nvenc) ==
    IF mode = "remux"
    THEN {[runs |-> <<>>, result |-> "raised"],
          [runs |-> <<RemuxRun>>, result |-> "ok"]}
         \cup {[runs |-> <<RemuxRun>> \o o.runs, result |-> o.result] :
                  o \in TranscodeOutcomes(has_nvenc)}
    ELSE TranscodeOutcomes(has_nvenc)

\* lines 387-451: the encoder runs of one file. An encoder exits 0 only if its
\* input exists; the percent of the last progress line stays in _conversion_state.
ConvertEncode(th) ==
    /\ th.pc = "encode"
    /\ \E o \in EncodeOutcomes(FileMode(th), th.has_nvenc) :
       \E pct \in (IF o.runs = <<>> THEN {conversion_state.percent} ELSE ProgressAfterRun) :
         LET state == [conversion_state EXCEPT !.percent = pct]
         IN  IF o.result = "ok"
             THEN /\ Exists(FilePath(th))
                  /\ \E out \in EncoderOutputs : temp' = out
                  /\ conversion_state' = state
                  /\ Become(th, [th EXCEPT !.pc = "verify"])
                  /\ event' = [ConvertEvent(FilePath(th), "encode", o.runs, "none")
                                 EXCEPT !.ended = o.result]
             ELSE /\ CountFailure(th, state)
                  /\ event' = [ConvertEvent(FilePath(th), "encode", o.runs, "false")
                                 EXCEPT !.ended = o.result]
    /\ UNCHANGED <<nvenc, proc, main_pc, to_convert, fs, scan>>

\* Lines 453-466 with file_path.unlink() moved before the verification: the
\* original is deleted whatever _verify_converted returns.
ConvertVerifyAfterUnlink(th) ==
    /\ th.pc = "verify"
    /\ Exists(FilePath(th))
    /\ fs' = [fs EXCEPT ![FilePath(th)] = "none"]
    /\ \E orig_data \in OriginalProbes(FilePath(th)) :
         LET ok == VerifyConverted(orig_data, temp)
             ev == [ConvertEvent(FilePath(th), "verify", <<>>, IF ok THEN "none" ELSE "false")
                      EXCEPT !.orig_dur = orig_data.duration,
                             !.conv_dur = temp.data.duration]
         IN  /\ event' = ev
             /\ IF ok
                THEN /\ Become(th, [th EXCEPT !.pc = "rename"])
                     /\ UNCHANGED <<temp, conversion_state>>
                ELSE CountFailure(th, conversion_state)
    /\ UNCHANGED <<nvenc, proc, main_pc, to_convert, scan>>

\* lines 453-459: _verify_converted(file_path, temp_path)
ConvertVerify(th) ==
    /\ th.pc = "verify"
    /\ \E orig_data \in OriginalProbes(FilePath(th)) :
         LET ok == VerifyConverted(orig_data, temp)
             ev == [ConvertEvent(FilePath(th), "verify", <<>>, IF ok THEN "none" ELSE "false")
                      EXCEPT !.orig_dur = orig_data.duration,
                             !.conv_dur = temp.data.duration]
         IN  /\ event' = ev
             /\ IF ok
                THEN /\ Become(th, [th EXCEPT !.pc = "unlink"])
                     /\ UNCHANGED <<temp, conversion_state>>
                ELSE CountFailure(th, conversion_state)
    /\ UNCHANGED <<nvenc, proc, main_pc, to_convert, fs, scan>>

\* lines 462-466: stat both files, delete the original
ConvertUnlink(th) ==
    /\ th.pc = "unlink"
    /\ \/ /\ Exists(FilePath(th)) /\ temp.exists
          /\ fs' = [fs EXCEPT ![FilePath(th)] = "none"]
          /\ Become(th, [th EXCEPT !.pc = "rename"])
          /\ event' = ConvertEvent(FilePath(th), "unlink", <<>>, "none")
          /\ UNCHANGED <<temp, conversion_state>>
       \/ /\ fs' = fs                         \* stat() or unlink() raises
          /\ CountFailure(th, conversion_state)
          /\ event' = ConvertEvent(FilePath(th), "unlink", <<>>, "false")
    /\ UNCHANGED <<nvenc, proc, main_pc, to_convert, scan>>

\* lines 467-470: rename the temporary file into place
ConvertRename(th) ==
    /\ th.pc = "rename"
    /\ \/ /\ temp.exists
          /\ fs' = [fs EXCEPT ![FilePath(th)] = "conv"]
          /\ temp' = NoTemp
          /\ CountSuccess(th, conversion_state)
          /\ event' = ConvertEvent(FilePath(th), "rename", <<>>, "true")
       \/ /\ fs' = fs                         \* rename() raises
          /\ CountFailure(th, conversion_state)
          /\ event' = ConvertEvent(FilePath(th), "rename", <<>>, "false")
    /\ UNCHANGED <<nvenc, proc, main_pc, to_convert, scan>>

(* ---- the HTTP handlers ---- *)
\* handle_start_conversion without the phase test of lines 706-708
HandleStartConversionUnchecked ==
    /\ main_pc = "serving"
    /\ NumThreads < MaxThreads
    /\ threads' = threads (+) SetToBag({NewThread})
    /\ event' = [kind |-> "convert_response", success |-> TRUE]
    /\ UNCHANGED <<nvenc, proc, main_pc, conversion_state, to_convert, fs, temp, scan>>

\* handle_start_conversion, server.py:704-713 (POST /api/convert)
HandleStartConversion ==
    /\ main_pc = "serving"
    /\ IF conversion_state.phase # "waiting"
       THEN /\ event' = [kind |-> "convert_response", success |-> FALSE]
            /\ threads' = threads
       ELSE /\ NumThreads < MaxThreads
            /\ threads' = threads (+) SetToBag({NewThread})
            /\ event' = [kind |-> "convert_response", success |-> TRUE]
    /\ UNCHANGED <<nvenc, proc, main_pc, conversion_state, to_convert, fs, temp, scan>>

\* do_GET, server.py:594-596 (GET /api/conversion-status): the response is the
\* dict as it is at that moment
HandleConversionStatus ==
    /\ main_pc = "serving"
    /\ event' = [kind |-> "status_response", snapshot |-> conversion_state]
    /\ UNCHANGED <<nvenc, proc, main_pc, conversion_state, to_convert, fs, temp, scan, threads>>

(* ---- strings of the media handler ---- *)
\* A string is the sequence of its characters. "U+E9" is the one character
\* e-acute, "U+FFFD" the replacement character of a failed UTF-8 decoding.
HexDigits ==
    {"0", "1", "2", "3", "4", "5", "6", "7", "8", "9",
     "a", "b", "c", "d", "e", "f", "A", "B", "C", "D", "E", "F"}

Upper(c) ==
    CASE c = "a" -> "A" [] c = "b" -> "B" [] c = "c" -> "C"
      [] c = "d" -> "D" [] c = "e" -> "E" [] c = "f" -> "F"
      [] OTHER -> c

\* The characters urllib.parse.quote(part, safe='') escapes (everything but
\* letters, digits and "_.-~"), with their UTF-8 bytes in upper-case hex.
QuoteTable ==
    [c \in {"%", " ", "#", "?", "+", "/", "U+E9"} |->
        CASE c = "%" -> <<"%", "2", "5">>
          [] c = " " -> <<"%", "2", "0">>
          [] c = "#" -> <<"%", "2", "3">>
          [] c = "?" -> <<"%", "3", "F">>
          [] c = "+" -> <<"%", "2", "B">>
          [] c = "/" -> <<"%", "2", "F">>
          [] c = "U+E9" -> <<"%", "C", "3", "%", "A", "9">>]

RECURSIVE Quote(_)
Quote(str) ==
    IF str = <<>> THEN <<>>
    ELSE (IF str[1] \in DOMAIN QuoteTable THEN QuoteTable[str[1]] ELSE <<str[1]>>)
         \o Quote(Tail(str))

\* The character of one escaped byte %h1h2 (ASCII), for the bytes the model uses.
ByteChar(h1, h2) ==
    LET b == <<Upper(h1), Upper(h2)>>
    IN  CASE b = <<"2", "5">> -> "%"
          [] b = <<"2", "0">> -> " "
          [] b = <<"2", "3">> -> "#"
          [] b = <<"3", "F">> -> "?"
          [] b = <<"2", "B">> -> "+"
          [] b = <<"2", "F">> -> "/"
          [] b = <<"2", "E">> -> "."
          [] b = <<"4", "1">> -> "A"
          [] OTHER -> "U+FFFD"

\* urllib.parse.unquote: every %XX with two hex digits becomes its byte, the
\* bytes are decoded as UTF-8; a % not followed by two hex digits stays.
RECURSIVE Unquote(_)
Unquote(str) ==
    IF str = <<>> THEN <<>>
    ELSE IF str[1] = "%" /\ Len(str) >= 3 /\ str[2] \in HexDigits /\ str[3] \in HexDigits
    THEN IF /\ Len(str) >= 6
            /\ <<Upper(str[2]), Upper(str[3])>> = <<"C", "3">>
            /\ str[4] = "%"
            /\ <<Upper(str[5]), Upper(str[6])>> = <<"A", "9">>
         THEN <<"U+E9">> \o Unquote(SubSeq(str, 7, Len(str)))
         ELSE <<ByteChar(str[2], str[3])>> \o Unquote(SubSeq(str, 4, Len(str)))
    ELSE <<str[1]>> \o Unquote(Tail(str))

\* str.split('/'): the segments of a path string
RECURSIVE SplitFrom(_, _)
SplitFrom(str, seg) ==
    IF str = <<>> THEN <<seg>>
    ELSE IF str[1] = "/" THEN <<seg>> \o SplitFrom(Tail(str), <<>>)
    ELSE SplitFrom(Tail(str), Append(seg, str[1]))
Split(str) == SplitFrom(str, <<>>)

\* '/'.join(parts)
RECURSIVE Join(_)
Join(parts) ==
    IF parts = <<>> THEN <<>>
    ELSE IF Len(parts) = 1 THEN parts[1]
    ELSE parts[1] \o <<"/">> \o Join(Tail(parts))

\* str(path) of an absolute path given by its segments
PathStr(segs) == <<"/">> \o Join(segs)

\* str.startswith
StartsWith(str, prefix) ==
    Len(str) >= Len(prefix) /\ SubSeq(str, 1, Len(prefix)) = prefix

(* ---- the files the media handler can reach ---- *)
\* Paths are absolute, given by their segments. The course root is /c/py; its
\* sibling /c/py2 and the file /e are outside it.
CourseRoot == << <<"c">>, <<"p", "y">> >>

\* The files under the course root, with their sizes in bytes.
CourseFiles ==
    << [path |-> CourseRoot \o << <<"v">> >>, size |-> 3],
       [path |-> CourseRoot \o << <<"d">>, <<"v">> >>, size |-> 0],
       [path |-> CourseRoot \o << <<"a", " ", "b">>, <<"q", "?">> >>, size |-> 1],
       [path |-> CourseRoot \o << <<"d">>, <<"x", "%", "4", "1">> >>, size |-> 2],
       [path |-> CourseRoot \o << <<"n", "#", "+">> >>, size |-> 1],
       [path |-> CourseRoot \o << <<"d">>, <<"U+E9">> >>, size |-> 1],
       [path |-> CourseRoot \o << <<"d">>, <<"x", "A">> >>, size |-> 1] >>

\* The files outside the course root.
OutsideFiles ==
    << [path |-> << <<"c">>, <<"p", "y", "2">>, <<"s">> >>, size |-> 2],
       [path |-> << <<"e">> >>, size |-> 1] >>

AllFiles == CourseFiles \o OutsideFiles

Directories ==
    {<<>>, << <<"c">> >>, CourseRoot, CourseRoot \o << <<"d">> >>,
     CourseRoot \o << <<"a", " ", "b">> >>, << <<"c">>, <<"p", "y", "2">> >>}

IsFile(path) == \E k \in 1..Len(AllFiles) : AllFiles[k].path = path
PathExists(path) == IsFile(path) \/ path \in Directories
FileNumber(path) == CHOOSE k \in 1..Len(AllFiles) : AllFiles[k].path = path
FileSize(path) == AllFiles[FileNumber(path)].size
\* The bytes of a file: no two files share a byte value.
FileBytes(path) == [k \in 1..FileSize(path) |-> 10 * FileNumber(path) + k]

\* (course_path / decoded_path).resolve(), lines 770-774: an absolute
\* decoded path replaces the course path, empty and "." segments are dropped,
\* ".." removes the last segment (at / it does nothing). No symbolic links.
RECURSIVE ResolveFrom(_, _)
ResolveFrom(segs, parts) ==
    IF parts = <<>> THEN segs
    ELSE LET part == parts[1]
         IN  IF part = <<>> \/ part = <<".">> THEN ResolveFrom(segs, Tail(parts))
             ELSE IF part = <<".", ".">>
             THEN ResolveFrom(IF segs = <<>> THEN <<>> ELSE SubSeq(segs, 1, Len(segs) - 1),
                              Tail(parts))
             ELSE ResolveFrom(Append(segs, part), Tail(parts))

Resolve(decoded_path) ==
    ResolveFrom(IF decoded_path # <<>> /\ decoded_path[1] = "/" THEN <<>> ELSE CourseRoot,
                Split(decoded_path))

(* ---- the Range header ---- *)
\* A header is the sequence of its tokens: "bytes=", "items=" (another unit),
\* the decimal digits, "-", "," and "x" (any other character). <<>> is no header.
DigitTokens == {"0", "1", "2", "3", "4", "5", "6", "7", "8", "9"}
DigitValue(c) ==
    CASE c = "0" -> 0 [] c = "1" -> 1 [] c = "2" -> 2 [] c = "3" -> 3 [] c = "4" -> 4
      [] c = "5" -> 5 [] c = "6" -> 6 [] c = "7" -> 7 [] c = "8" -> 8 [] c = "9" -> 9

\* int(group)
RECURSIVE ParseInt(_)
ParseInt(digits) ==
    IF digits = <<>> THEN 0
    ELSE 10 * ParseInt(SubSeq(digits, 1, Len(digits) - 1)) + DigitValue(digits[Len(digits)])

\* The longest run of digits of header that starts at position k (\d*).
RECURSIVE DigitRun(_, _)
DigitRun(header, k) ==
    IF k <= Len(header) /\ header[k] \in DigitTokens
    THEN <<header[k]>> \o DigitRun(header, k + 1)
    ELSE <<>>

\* re.search(r'bytes=(\d+)-(\d*)', range_header), line 803: the match that
\* starts at position k, if there is one
MatchesAt(header, k) ==
    /\ header[k] = "bytes="
    /\ DigitRun(header, k + 1) # <<>>
    /\ LET dash == k + 1 + Len(DigitRun(header, k + 1))
       IN  dash <= Len(header) /\ header[dash] = "-"

NoMatch == [found |-> FALSE, group1 |-> <<>>, group2 |-> <<>>]

RangeSearch(header) ==
    IF \E k \in 1..Len(header) : MatchesAt(header, k)
    THEN LET k == CHOOSE j \in 1..Len(header) :
                     MatchesAt(header, j) /\ \A l \in 1..(j - 1) : ~MatchesAt(header, l)
             group1 == DigitRun(header, k + 1)
         IN  [found |-> TRUE, group1 |-> group1,
              group2 |-> DigitRun(header, k + 2 + Len(group1))]
    ELSE NoMatch

(* ---- GET /media/..., server.py:585-623 and 767-859 ---- *)
\* A response: the status, the path serve_media_file resolved, the file whose
\* bytes the body holds (<<>> for an error page), the Content-Range header as
\* <<start, end, total>> (<<>> when the header is not sent), Content-Length of a
\* file response, and the bytes of the body.
NoFile == <<>>
ErrorResponse(status, file_path) ==
    [status |-> status, resolved |-> file_path, file |-> NoFile,
     content_range |-> <<>>, content_length |-> 0, body |-> <<>>]

Min(x, y) == IF x < y THEN x ELSE y

\* serve_media_file with `remaining = end - start` at line 825: the last byte
\* of the range is not sent.
ServeMediaFileShortBody(relative_path, range_header) ==
    LET decoded_path == Unquote(relative_path)
        file_path == Resolve(decoded_path)
    IN  IF ~StartsWith(PathStr(file_path), PathStr(CourseRoot))
        THEN ErrorResponse(403, file_path)
        ELSE IF ~PathExists(file_path) THEN ErrorResponse(404, file_path)
        ELSE IF ~IsFile(file_path) THEN ErrorResponse(400, file_path)
        ELSE LET file_size == FileSize(file_path)
                 range_match == RangeSearch(range_header)
             IN  IF range_header # <<>> /\ range_match.found
                 THEN LET start == ParseInt(range_match.group1)
                          end == IF range_match.group2 # <<>>
                                 THEN Min(ParseInt(range_match.group2), file_size - 1)
                                 ELSE file_size - 1
                      IN  IF start >= file_size
                          THEN ErrorResponse(416, file_path)
                          ELSE [status |-> 206, resolved |-> file_path, file |-> file_path,
                                content_range |-> <<start, end, file_size>>,
                                content_length |-> end - start + 1,
                                body |-> SubSeq(FileBytes(file_path), start + 1, end)]
                 ELSE [status |-> 200, resolved |-> file_path, file |-> file_path,
                       content_range |-> <<>>, content_length |-> file_size,
                       body |-> FileBytes(file_path)]

\* serve_media_file, lines 767-859
ServeMediaFile(relative_path, range_header) ==
    LET decoded_path == Unquote(relative_path)
        file_path == Resolve(decoded_path)
    IN  IF ~StartsWith(PathStr(file_path), PathStr(CourseRoot))
        THEN ErrorResponse(403, file_path)
        ELSE IF ~PathExists(file_path) THEN ErrorResponse(404, file_path)
        ELSE IF ~IsFile(file_path) THEN ErrorResponse(400, file_path)
        ELSE LET file_size == FileSize(file_path)
                 range_match == RangeSearch(range_header)
             IN  IF range_header # <<>> /\ range_match.found
                 THEN LET start == ParseInt(range_match.group1)
                          end == IF range_match.group2 # <<>>
                                 THEN Min(ParseInt(range_match.group2), file_size - 1)
                                 ELSE file_size - 1
                      IN  IF start >= file_size
                          THEN ErrorResponse(416, file_path)
                          ELSE [status |-> 206, resolved |-> file_path, file |-> file_path,
                                content_range |-> <<start, end, file_size>>,
                                content_length |-> end - start + 1,
                                body |-> SubSeq(FileBytes(file_path), start + 1, end + 1)]
                 ELSE [status |-> 200, resolved |-> file_path, file |-> file_path,
                       content_range |-> <<>>, content_length |-> file_size,
                       body |-> FileBytes(file_path)]

\* The request path is the token "/media/" followed by the characters after it.
MediaPrefix == "/media/"

\* do_GET, lines 585-623, for a request path that starts with /media/
DoGetMedia(request_path, range_header) ==
    LET path == Unquote(request_path)
        media_path == Tail(path)
    IN  ServeMediaFile(media_path, range_header)

\* build_url_path, src/scanner/directory.py:201-205
BuildUrlPath(file_path) ==
    LET relative == SubSeq(file_path, Len(CourseRoot) + 1, Len(file_path))
        parts == [k \in 1..Len(relative) |-> Quote(relative[k])]
    IN  <<MediaPrefix>> \o Join(parts)

(* ---- the requests of the model ---- *)
\* Percent-encoding as a client may write it (lower-case hex).
RECURSIVE Escape(_, _)
Escape(str, chars) ==
    IF str = <<>> THEN <<>>
    ELSE (IF str[1] \in chars
          THEN CASE str[1] = "." -> <<"%", "2", "e">>
                 [] str[1] = "/" -> <<"%", "2", "f">>
                 [] str[1] = "%" -> <<"%", "2", "5">>
          ELSE <<str[1]>>)
         \o Escape(Tail(str), chars)

DotDot == <<".", ".">>

\* Paths a client asks for, as they read once decoded: files of the course,
\* and ways out of it (.., an absolute path, the sibling /c/py2).
RequestTargets ==
    { << <<"v">> >>,
      << <<"d">>, <<"v">> >>,
      << <<"d">>, DotDot, <<"v">> >>,
      << <<"d">>, <<"x", "A">> >>,
      << <<"z">> >>,
      << <<"d">> >>,
      << DotDot, <<"p", "y">>, <<"v">> >>,
      << DotDot, <<"p", "y", "2">>, <<"s">> >>,
      << DotDot, DotDot, <<"e">> >>,
      << DotDot >>,
      << <<>>, <<"e">> >>,
      << <<>>, <<"c">>, <<"p", "y", "2">>, <<"s">> >>,
      << <<>>, <<"c">>, <<"p", "y">>, <<"v">> >> }

\* Each target plain, with dots and/or separators percent-encoded, and
\* percent-encoded twice.
Encodings(str) ==
    {str, Escape(str, {"."}), Escape(str, {"/"}), Escape(str, {".", "/"}),
     Escape(Escape(str, {"."}), {"%"}), Escape(Escape(str, {".", "/"}), {"%"})}

MediaUrls ==
    {<<MediaPrefix>> \o url : url \in UNION {Encodings(Join(t)) : t \in RequestTargets}}
    \cup {BuildUrlPath(CourseFiles[k].path) : k \in 1..Len(CourseFiles)}

MaxOffset == 4      \* range offsets 0..MaxOffset

DigitSeq == <<"0", "1", "2", "3", "4", "5", "6", "7", "8", "9">>
\* str(n)
RECURSIVE Digits(_)
Digits(n) == IF n < 10 THEN <<DigitSeq[n + 1]>> ELSE Digits(n \div 10) \o <<DigitSeq[(n % 10) + 1]>>

\* Range headers: none, bytes=s-e and bytes=s-, alone or inside a longer
\* header (a unit that ends in "bytes", a second range after a comma), a suffix
\* range bytes=-n, another unit, and headers with no number.
RangeHeaders ==
    {<<>>}
    \cup {pre \o <<"bytes=">> \o Digits(start) \o <<"-">> \o end \o suf :
            start \in 0..MaxOffset,
            end \in {<<>>} \cup {Digits(e) : e \in 0..MaxOffset},
            pre \in {<<>>, <<"x">>},
            suf \in {<<>>, <<",", "0", "-", "0">>}}
    \cup {<<"bytes=", "-">> \o Digits(n) : n \in 1..MaxOffset}
    \cup {<<"items=">> \o Digits(start) \o <<"-">> \o Digits(e) : start, e \in 0..1}
    \cup {<<"bytes=">>, <<"bytes=", "x", "-", "1">>, <<"x">>}

\* A GET /media/... request is handled. The handler keeps nothing from one
\* request to the next: the requests are taken one after the other.
HandleMediaRequest ==
    /\ main_pc = "serving"
    /\ event = NoEvent
    /\ \E request_path \in MediaUrls : \E range_header \in RangeHeaders :
         event' = [kind |-> "media_response", path |-> request_path,
                   range |-> range_header,
                   response |-> DoGetMedia(request_path, range_header)]
    /\ UNCHANGED <<nvenc, proc, main_pc, conversion_state, to_convert, fs, temp, scan, threads>>

(* ---- POST /api/duration, server.py:715-732 ---- *)
\* str.replace('/media/', '', 1): the first /media/ of the string is removed
RECURSIVE RemoveFirstMedia(_)
RemoveFirstMedia(str) ==
    IF str = <<>> THEN <<>>
    ELSE IF str[1] = MediaPrefix THEN Tail(str)
    ELSE <<str[1]>> \o RemoveFirstMedia(Tail(str))

\* The file the operating system opens for a path name: the name is walked
\* part by part from its start, .. leads to the parent, and every part before
\* the last is a directory that exists. No symbolic links.
NoPath == << <<"ENOENT">> >>

RECURSIVE Lookup(_, _)
Lookup(segs, parts) ==
    IF parts = <<>> THEN segs
    ELSE LET part == parts[1]
         IN  IF part = <<>> \/ part = <<".">> THEN Lookup(segs, Tail(parts))
             ELSE IF part = <<".", ".">>
             THEN Lookup(IF segs = <<>> THEN <<>> ELSE SubSeq(segs, 1, Len(segs) - 1),
                         Tail(parts))
             ELSE IF Append(segs, part) \in Directories
             THEN Lookup(Append(segs, part), Tail(parts))
             ELSE IF Tail(parts) = <<>> THEN Append(segs, part)
             ELSE NoPath

\* root_path / relative, directory.py:469: an absolute relative replaces the
\* root; the path is not resolved. The value is the file its name opens.
JoinRoot(relative) ==
    Lookup(IF relative # <<>> /\ relative[1] = "/" THEN <<>> ELSE CourseRoot,
           Split(relative))

\* The duration ffprobe reports for a file, in seconds.
MediaDuration(path) == 10 * FileNumber(path)

\* get_video_duration, directory.py:58-86: 0 when ffprobe is missing or fails
GetVideoDuration(file_path, ffprobe) ==
    IF ffprobe /\ IsFile(file_path) THEN MediaDuration(file_path) ELSE 0

\* calculate_duration_for_video, directory.py:459-476; probed is the file
\* handed to ffprobe
CalculateDurationForVideo(video_path, ffprobe) ==
    LET relative == Unquote(RemoveFirstMedia(video_path))
        file_path == JoinRoot(relative)
    IN  [status |-> 200, path |-> video_path, probed |-> file_path,
         duration |-> GetVideoDuration(file_path, ffprobe)]

\* handle_duration_request: 400 when the body has no path or an empty one
DurationRequest(video_path, ffprobe) ==
    IF video_path = <<>>
    THEN [status |-> 400, path |-> video_path, probed |-> NoPath, duration |-> 0]
    ELSE CalculateDurationForVideo(video_path, ffprobe)

\* The paths of the request bodies: the media URLs, the same without
\* /media/, and none.
DurationPaths == MediaUrls \cup {Tail(url) : url \in MediaUrls} \cup {<<>>}

\* A POST /api/duration request is handled; ffprobe is installed or not.
HandleDurationRequest ==
    /\ main_pc = "serving"
    /\ event = NoEvent
    /\ \E video_path \in DurationPaths : \E ffprobe \in BOOLEAN :
         event' = [kind |-> "duration_response", path |-> video_path,
                   ffprobe |-> ffprobe,
                   response |-> DurationRequest(video_path, ffprobe)]
    /\ UNCHANGED <<nvenc, proc, main_pc, conversion_state, to_convert, fs, temp, scan, threads>>

(* ---- strings of the scanner ---- *)
\* Names are sequences of characters, as the strings of the media handler.
UpperLetters ==
    <<"A", "B", "C", "D", "E", "F", "G", "H", "I", "J", "K", "L", "M",
      "N", "O", "P", "Q", "R", "S", "T", "U", "V", "W", "X", "Y", "Z">>

LowerLetters ==
    <<"a", "b", "c", "d", "e", "f", "g", "h", "i", "j", "k", "l", "m",
      "n", "o", "p", "q", "r", "s", "t", "u", "v", "w", "x", "y", "z">>

IsUpper(c) == \E i \in 1..Len(UpperLetters) : UpperLetters[i] = c
IsLower(c) == \E i \in 1..Len(LowerLetters) : LowerLetters[i] = c
\* [a-zA-Z]
IsAlpha(c) == IsUpper(c) \/ IsLower(c)

CharLower(c) ==
    IF IsUpper(c)
    THEN LowerLetters[CHOOSE i \in 1..Len(UpperLetters) : UpperLetters[i] = c]
    ELSE c

CharUpper(c) ==
    IF IsLower(c)
    THEN UpperLetters[CHOOSE i \in 1..Len(LowerLetters) : LowerLetters[i] = c]
    ELSE c

\* str.lower()
StrLower(str) == [k \in 1..Len(str) |-> CharLower(str[k])]

\* The characters in the order of their code points.
CodeOrder ==
    <<" ", "(", ")", "-", ".", "0", "1", "2", "3", "4", "5", "6", "7", "8", "9">>
    \o UpperLetters \o <<"[", "]", "_">> \o LowerLetters \o <<"~", "U+E9">>

Code(c) == CHOOSE i \in 1..Len(CodeOrder) : CodeOrder[i] = c

\* a < b on strings
RECURSIVE StrLess(_, _)
StrLess(a, b) ==
    IF b = <<>> THEN FALSE
    ELSE IF a = <<>> THEN TRUE
    ELSE IF a[1] = b[1] THEN StrLess(Tail(a), Tail(b))
    ELSE Code(a[1]) < Code(b[1])

\* str.lstrip(chars), str.rstrip(chars), str.strip(chars)
RECURSIVE LStrip(_, _)
LStrip(str, chars) ==
    IF str # <<>> /\ str[1] \in chars THEN LStrip(Tail(str), chars) ELSE str

RECURSIVE RStrip(_, _)
RStrip(str, chars) ==
    IF str # <<>> /\ str[Len(str)] \in chars
    THEN RStrip(SubSeq(str, 1, Len(str) - 1), chars)
    ELSE str

Strip(str, chars) == RStrip(LStrip(str, chars), chars)

\* \s, on the characters of the model
Whitespace == {" "}

\* The longest run of characters of chars that starts at position k of str.
RECURSIVE Run(_, _, _)
Run(str, k, chars) ==
    IF k <= Len(str) /\ str[k] \in chars
    THEN <<str[k]>> \o Run(str, k + 1, chars)
    ELSE <<>>

\* str.rfind('.'), counted from 1; 0 when there is no dot
LastDot(name) ==
    IF \E k \in 1..Len(name) : name[k] = "."
    THEN CHOOSE k \in 1..Len(name) :
             name[k] = "." /\ \A l \in (k + 1)..Len(name) : name[l] # "."
    ELSE 0

\* PurePath.suffix and PurePath.stem
Suffix(name) ==
    LET k == LastDot(name)
    IN  IF 1 < k /\ k < Len(name) THEN SubSeq(name, k, Len(name)) ELSE <<>>

Stem(name) == SubSeq(name, 1, Len(name) - Len(Suffix(name)))

(* ---- the ordering engine, src/scanner/ordering.py ---- *)
StartSeparators == {" ", "_", "-", ".", ")", "]"}
BracketSeparators == {" ", "_", "-", "."}
NoGroups == [found |-> FALSE, group1 |-> <<>>, group2 |-> <<>>, group3 |-> <<>>]

\* ^(\d+)[\s_\-\.\)\]]+(.*)$
NumberSeparator(name) ==
    LET digits == DigitRun(name, 1)
        seps == Run(name, Len(digits) + 1, StartSeparators)
    IN  IF digits # <<>> /\ seps # <<>>
        THEN [found |-> TRUE, group1 |-> digits,
              group2 |-> SubSeq(name, Len(digits) + Len(seps) + 1, Len(name)),
              group3 |-> <<>>]
        ELSE NoGroups

\* ^\[(\d+)\][\s_\-\.]*(.*)$ and ^\((\d+)\)[\s_\-\.]*(.*)$
Bracketed(name, open, close) ==
    LET digits == DigitRun(name, 2)
        seps == Run(name, Len(digits) + 3, BracketSeparators)
    IN  IF /\ name # <<>>
           /\ name[1] = open
           /\ digits # <<>>
           /\ Len(digits) + 2 <= Len(name)
           /\ name[Len(digits) + 2] = close
        THEN [found |-> TRUE, group1 |-> digits,
              group2 |-> SubSeq(name, Len(digits) + Len(seps) + 3, Len(name)),
              group3 |-> <<>>]
        ELSE NoGroups

\* ^(\d+)([a-zA-Z].*)$
NumberLetter(name) ==
    LET digits == DigitRun(name, 1)
    IN  IF digits # <<>> /\ Len(digits) < Len(name) /\ IsAlpha(name[Len(digits) + 1])
        THEN [found |-> TRUE, group1 |-> digits,
              group2 |-> SubSeq(name, Len(digits) + 1, Len(name)), group3 |-> <<>>]
        ELSE NoGroups

\* ^(\d+)()$
BareNumber(name) ==
    LET digits == DigitRun(name, 1)
    IN  IF digits # <<>> /\ Len(digits) = Len(name)
        THEN [found |-> TRUE, group1 |-> digits, group2 |-> <<>>, group3 |-> <<>>]
        ELSE NoGroups

\* start_patterns, tried in their order (lines 42-52)
StartPatterns(name) ==
    <<NumberSeparator(name), Bracketed(name, "[", "]"), Bracketed(name, "(", ")"),
      NumberLetter(name), BareNumber(name)>>

\* ^(.+?)\s+(\d+)(.*)$ with group 1 ending at position i
WordNumberAt(name, i) ==
    Run(name, i + 1, Whitespace) # <<>>
    /\ DigitRun(name, i + 1 + Len(Run(name, i + 1, Whitespace))) # <<>>

\* the groups of that match: group 1 is lazy, the digits are greedy
WordNumberGroups(name, i, digits_at) ==
    [found |-> TRUE, group1 |-> SubSeq(name, 1, i),
     group2 |-> DigitRun(name, digits_at),
     group3 |-> SubSeq(name, digits_at + Len(DigitRun(name, digits_at)), Len(name))]

\* The first position of 1..Len(name) at which At holds.
First(name, At(_, _)) ==
    CHOOSE j \in 1..Len(name) : At(name, j) /\ \A l \in 1..(j - 1) : ~At(name, l)

WordNumber(name) ==
    IF \E i \in 1..Len(name) : WordNumberAt(name, i)
    THEN WordNumberGroups(name, First(name, WordNumberAt),
             First(name, WordNumberAt) + 1
             + Len(Run(name, First(name, WordNumberAt) + 1, Whitespace)))
    ELSE NoGroups

\* ^(.+?)[\s_\-](\d+)(\.[^.]+)?$ with group 1 ending at position i and the
\* digits ending at position last
EndNumberEnds(name, last) ==
    \/ last = Len(name)
    \/ /\ last + 2 <= Len(name)
       /\ name[last + 1] = "."
       /\ \A l \in (last + 2)..Len(name) : name[l] # "."

EndNumberAt(name, i) ==
    /\ i + 1 <= Len(name)
    /\ name[i + 1] \in {" ", "_", "-"}
    /\ DigitRun(name, i + 2) # <<>>
    /\ EndNumberEnds(name, i + 1 + Len(DigitRun(name, i + 2)))

EndNumberGroups(name, i) ==
    [found |-> TRUE, group1 |-> SubSeq(name, 1, i), group2 |-> DigitRun(name, i + 2),
     group3 |-> SubSeq(name, i + 2 + Len(DigitRun(name, i + 2)), Len(name))]

EndNumber(name) ==
    IF \E i \in 1..Len(name) : EndNumberAt(name, i)
    THEN EndNumberGroups(name, First(name, EndNumberAt))
    ELSE NoGroups

\* the first pattern of start_patterns that matches (lines 50-52)
FirstFound(matches) ==
    matches[CHOOSE k \in 1..Len(matches) :
                matches[k].found /\ \A l \in 1..(k - 1) : ~matches[l].found]

\* a or b, on strings
Or(a, b) == IF a # <<>> THEN a ELSE b

\* lines 53-58
NumberedKey(match, name) ==
    <<<<"l", "_", "_", "n", "u", "m", "b", "e", "r", "e", "d">>,
      ParseInt(match.group1), StrLower(Or(Strip(match.group2, Whitespace), name))>>

\* lines 64-69
WordNumberKey(match) ==
    <<StrLower(Strip(match.group1, Whitespace)), ParseInt(match.group2),
      StrLower(Strip(match.group3, Whitespace))>>

\* lines 76-81
EndNumberKey(match) ==
    <<StrLower(Strip(match.group1, Whitespace)), ParseInt(match.group2),
      StrLower(match.group3)>>

SortKeyOf(name, starts, word_number, end_number) ==
    IF name # <<>> /\ name[1] = "-"
    THEN <<<<"~", "~">>, 999998, StrLower(name)>>
    ELSE IF \E k \in 1..Len(starts) : starts[k].found
    THEN NumberedKey(FirstFound(starts), name)
    ELSE IF word_number.found THEN WordNumberKey(word_number)
    ELSE IF end_number.found THEN EndNumberKey(end_number)
    ELSE <<<<"~", "~", "~">>, 999999, StrLower(name)>>

\* extract_sort_key: (prefix, numeric_order, alphabetic_key)
ExtractSortKey(name) ==
    SortKeyOf(name, StartPatterns(name), WordNumber(name), EndNumber(name))

\* the tuples compared with the number as text: "10" before "2"
KeyLessLexicographic(a, b) ==
    \/ StrLess(a[1], b[1])
    \/ a[1] = b[1] /\ StrLess(Digits(a[2]), Digits(b[2]))
    \/ a[1] = b[1] /\ a[2] = b[2] /\ StrLess(a[3], b[3])

\* the order of the tuples sorted() compares
KeyLess(a, b) ==
    \/ StrLess(a[1], b[1])
    \/ a[1] = b[1] /\ a[2] < b[2]
    \/ a[1] = b[1] /\ a[2] = b[2] /\ StrLess(a[3], b[3])

\* The place of item k in sorted(): items of equal keys stay in their order.
Rank(keys, k) ==
    Cardinality({j \in 1..Len(keys) :
        KeyLess(keys[j], keys[k]) \/ (keys[j] = keys[k] /\ j < k)}) + 1

Sorted(items, keys) ==
    [r \in 1..Len(items) |-> items[CHOOSE k \in 1..Len(items) : Rank(keys, k) = r]]

\* sort_items: sorted() by the sort key of each item's name. names[k] is
\* key_func(items[k]).
SortItems(items, names) ==
    Sorted(items, [k \in 1..Len(names) |-> ExtractSortKey(names[k])])

\* re.sub(r'\.[^.]+$', '', filename), line 128
RemoveExtension(filename) ==
    IF LastDot(filename) > 0 /\ LastDot(filename) < Len(filename)
    THEN SubSeq(filename, 1, LastDot(filename) - 1)
    ELSE filename

\* re.sub(pattern, '', name) for a pattern anchored at the start
RemoveMatch(match, name) == IF match.found THEN match.group2 ELSE name

\* lines 131-137: the three patterns, one after the other
RemoveLeadingNumber(name) == RemoveMatch(NumberSeparator(name), name)
RemoveLeadingBracket(name) == RemoveMatch(Bracketed(name, "[", "]"), name)
RemoveLeadingParen(name) == RemoveMatch(Bracketed(name, "(", ")"), name)

\* lines 143-145
CapitalizeFirst(name) ==
    IF name # <<>> /\ IsLower(name[1]) THEN <<CharUpper(name[1])>> \o Tail(name) ELSE name

\* get_clean_title
GetCleanTitle(filename) ==
    Or(CapitalizeFirst(Strip(RemoveLeadingParen(RemoveLeadingBracket(
           RemoveLeadingNumber(RemoveExtension(filename)))), {" ", "_", "-", "."})),
       filename)

(* ---- the scanner's constants, src/scanner/directory.py:28-34 ---- *)
VIDEO_EXTENSIONS ==
    {<<".", "m", "p", "4">>, <<".", "m", "k", "v">>, <<".", "w", "e", "b", "m">>,
     <<".", "a", "v", "i">>, <<".", "m", "o", "v">>, <<".", "m", "4", "v">>}

SUBTITLE_EXTENSIONS == {<<".", "s", "r", "t">>, <<".", "v", "t", "t">>}

IMAGE_EXTENSIONS ==
    {<<".", "j", "p", "g">>, <<".", "j", "p", "e", "g">>, <<".", "p", "n", "g">>,
     <<".", "g", "i", "f">>, <<".", "w", "e", "b", "p">>, <<".", "b", "m", "p">>,
     <<".", "s", "v", "g">>}

DOCUMENT_EXTENSIONS ==
    {<<".", "p", "d", "f">>, <<".", "t", "x", "t">>, <<".", "j", "s", "o", "n">>,
     <<".", "z", "i", "p">>, <<".", "r", "a", "r">>, <<".", "7", "z">>, <<".", "m", "d">>,
     <<".", "h", "t", "m", "l">>, <<".", "h", "t", "m">>, <<".", "d", "o", "c", "x">>}

IGNORE_FOLDERS ==
    {<<".", "g", "i", "t">>,
     <<"_", "_", "p", "y", "c", "a", "c", "h", "e", "_", "_">>,
     <<"n", "o", "d", "e", "_", "m", "o", "d", "u", "l", "e", "s">>,
     <<".", "v", "s", "c", "o", "d", "e">>,
     <<"t", "r", "a", "s", "h">>,
     <<"d", "e", "l", "e", "t", "e", "V", "i", "d", "e", "o", "s">>,
     <<".", "i", "d", "e", "a">>}

\* get_document_type. DocumentType has no member DOCX (model.py:20-28):
\* evaluating DocumentType.DOCX raises AttributeError.
GetDocumentType(extension) ==
    LET ext == StrLower(extension)
    IN  CASE ext = <<".", "p", "d", "f">> -> "pdf"
          [] ext # <<".", "p", "d", "f">> /\ ext \in IMAGE_EXTENSIONS -> "image"
          [] ext \in {<<".", "t", "x", "t">>, <<".", "m", "d">>} -> "text"
          [] ext = <<".", "j", "s", "o", "n">> -> "json"
          [] ext \in {<<".", "z", "i", "p">>, <<".", "r", "a", "r">>, <<".", "7", "z">>} -> "zip"
          [] ext \in {<<".", "h", "t", "m", "l">>, <<".", "h", "t", "m">>} -> "html"
          [] ext = <<".", "d", "o", "c", "x">> -> "AttributeError"
          [] OTHER -> "other"

(* ---- the scanned tree ---- *)
\* A tree is the set of its files; a file is the sequence of the names from
\* the course root down to it. The folders are the proper prefixes.
Parent(path) == SubSeq(path, 1, Len(path) - 1)
Name(path) == path[Len(path)]

Entries(tree, folder) ==
    {p[Len(folder) + 1] :
        p \in {q \in tree : Len(q) > Len(folder) /\ SubSeq(q, 1, Len(folder)) = folder}}

\* The folders of a tree, the course root left out.
Folders(tree) == UNION {{SubSeq(p, 1, k) : k \in 1..(Len(p) - 1)} : p \in tree}

\* No name on the path is one the scanner skips.
Visible(path) ==
    \A k \in 1..Len(path) : path[k][1] # "." /\ path[k] \notin IGNORE_FOLDERS

Below(tree, folder) ==
    {p \in tree : Len(p) > Len(folder) /\ SubSeq(p, 1, Len(folder)) = folder}

\* A listing that fails: os.scandir raises PermissionError or OSError for
\* failure.folder in the listings named. os.walk then skips the folder,
\* get_all_files passes (lines 398-401) and scan_folder returns ([], [], [])
\* (lines 241-242): in each case the listing finds nothing below the folder.
NoFailure == [folder |-> <<>>, listings |-> {}]

Seen(tree, failure, listing) ==
    IF listing \in failure.listings THEN tree \ Below(tree, failure.folder) ELSE tree

\* os.scandir: the entries of a folder, here in the order of their names
Scandir(tree, folder) ==
    LET names == Entries(tree, folder)
    IN  [r \in 1..Cardinality(names) |->
            CHOOSE n \in names : Cardinality({m \in names : StrLess(m, n)}) = r - 1]

\* get_all_files, lines 370-404
RECURSIVE ScanDir(_, _, _)
ScanDir(tree, dir_path, names) ==
    IF names = <<>> THEN <<>>
    ELSE LET name == names[1]
             item_path == Append(dir_path, name)
         IN  (IF name[1] = "." \/ name \in IGNORE_FOLDERS THEN <<>>
              ELSE IF item_path \in tree THEN <<item_path>>
              ELSE ScanDir(tree, item_path, Scandir(tree, item_path)))
             \o ScanDir(tree, dir_path, Tail(names))

GetAllFiles(tree) == ScanDir(tree, <<>>, Scandir(tree, <<>>))

(* ---- find_subtitles, src/scanner/directory.py:118-198 ---- *)
LangNames ==
    [English |-> <<"E", "n", "g", "l", "i", "s", "h">>,
     Spanish |-> <<"S", "p", "a", "n", "i", "s", "h">>,
     French |-> <<"F", "r", "e", "n", "c", "h">>,
     German |-> <<"G", "e", "r", "m", "a", "n">>,
     Italian |-> <<"I", "t", "a", "l", "i", "a", "n">>,
     Portuguese |-> <<"P", "o", "r", "t", "u", "g", "u", "e", "s", "e">>,
     Russian |-> <<"R", "u", "s", "s", "i", "a", "n">>,
     Chinese |-> <<"C", "h", "i", "n", "e", "s", "e">>,
     Japanese |-> <<"J", "a", "p", "a", "n", "e", "s", "e">>,
     Korean |-> <<"K", "o", "r", "e", "a", "n">>]

\* lang_codes, in the order of the dictionary
LangCodes ==
    << <<<<"e", "n">>, LangNames.English>>, <<<<"e", "n", "g">>, LangNames.English>>,
       <<StrLower(LangNames.English), LangNames.English>>,
       <<<<"e", "s">>, LangNames.Spanish>>, <<<<"s", "p", "a">>, LangNames.Spanish>>,
       <<StrLower(LangNames.Spanish), LangNames.Spanish>>,
       <<<<"f", "r">>, LangNames.French>>, <<<<"f", "r", "a">>, LangNames.French>>,
       <<StrLower(LangNames.French), LangNames.French>>,
       <<<<"d", "e">>, LangNames.German>>, <<<<"d", "e", "u">>, LangNames.German>>,
       <<StrLower(LangNames.German), LangNames.German>>,
       <<<<"i", "t">>, LangNames.Italian>>, <<<<"i", "t", "a">>, LangNames.Italian>>,
       <<StrLower(LangNames.Italian), LangNames.Italian>>,
       <<<<"p", "t">>, LangNames.Portuguese>>, <<<<"p", "o", "r">>, LangNames.Portuguese>>,
       <<StrLower(LangNames.Portuguese), LangNames.Portuguese>>,
       <<<<"r", "u">>, LangNames.Russian>>, <<<<"r", "u", "s">>, LangNames.Russian>>,
       <<StrLower(LangNames.Russian), LangNames.Russian>>,
       <<<<"z", "h">>, LangNames.Chinese>>, <<<<"c", "h", "i">>, LangNames.Chinese>>,
       <<StrLower(LangNames.Chinese), LangNames.Chinese>>,
       <<<<"j", "a">>, LangNames.Japanese>>, <<<<"j", "p", "n">>, LangNames.Japanese>>,
       <<StrLower(LangNames.Japanese), LangNames.Japanese>>,
       <<<<"k", "o">>, LangNames.Korean>>, <<<<"k", "o", "r">>, LangNames.Korean>>,
       <<StrLower(LangNames.Korean), LangNames.Korean>> >>

\* sub in str
Contains(str, sub) ==
    \E k \in 1..(Len(str) - Len(sub) + 1) : SubSeq(str, k, k + Len(sub) - 1) = sub

\* str.capitalize()
Capitalize(str) ==
    IF str = <<>> THEN <<>> ELSE <<CharUpper(str[1])>> \o StrLower(Tail(str))

English == [lang |-> <<"e", "n">>, label |-> LangNames.English]

\* line 178: the test of one language code
KnownCode(remainder, code) ==
    \/ remainder = code
    \/ StartsWith(remainder, Append(code, "."))
    \/ Contains(StrLower(remainder), code)

\* lines 179-181
KnownLanguage(entry) ==
    [lang |-> IF Len(entry[1]) > 2 THEN SubSeq(entry[1], 1, 2) ELSE entry[1],
     label |-> entry[2]]

\* lines 175-188: the language found in what is left of the subtitle's stem
\* (rest: before lstrip, remainder: after it)
LanguageOf(rest, remainder, name_matches, sub_name) ==
    IF rest = <<>> THEN English
    ELSE IF \E k \in 1..Len(LangCodes) : KnownCode(remainder, LangCodes[k][1])
    THEN KnownLanguage(LangCodes[
             CHOOSE k \in 1..Len(LangCodes) :
                 /\ KnownCode(remainder, LangCodes[k][1])
                 /\ \A l \in 1..(k - 1) : ~KnownCode(remainder, LangCodes[l][1])])
    ELSE IF remainder # <<>> /\ ~name_matches
    THEN [lang |-> <<"e", "n">>, label |-> Stem(sub_name)]
    ELSE IF remainder # <<>>
    THEN [lang |-> SubSeq(remainder, 1, IF Len(remainder) < 2 THEN Len(remainder) ELSE 2),
          label |-> Capitalize(remainder)]
    ELSE English

\* lines 169-173: what the language is looked for in
Remainder(sub_stem, video_stem, name_matches) ==
    IF name_matches THEN SubSeq(sub_stem, Len(video_stem) + 1, Len(sub_stem)) ELSE sub_stem

\* The language of one accepted subtitle file (lines 164-188).
DetectLanguage(sub_name, video_stem, name_matches) ==
    LanguageOf(Remainder(StrLower(Stem(sub_name)), video_stem, name_matches),
               LStrip(Remainder(StrLower(Stem(sub_name)), video_stem, name_matches),
                      {".", "_", "-", " "}),
               name_matches, sub_name)

\* line 158
NameMatches(sub_name, video_stem) == StartsWith(StrLower(Stem(sub_name)), video_stem)

\* lines 144-149: the files of all_files with one of the extensions in a folder
FilesIn(all_files, dir, extensions) ==
    SelectSeq(all_files, LAMBDA f :
        StrLower(Suffix(Name(f))) \in extensions /\ Parent(f) = dir)

\* lines 190-195
NewSubtitle(sub_name, language) ==
    [lang |-> language.lang, label |-> language.label, file |-> sub_name, path |-> <<>>]

\* lines 154-195: the subtitles of the files that are not skipped
MatchSubtitles(accepted, video_stem) ==
    [k \in 1..Len(accepted) |->
        NewSubtitle(Name(accepted[k]),
                    DetectLanguage(Name(accepted[k]), video_stem,
                                   NameMatches(Name(accepted[k]), video_stem)))]

\* lines 160-162: the subtitle files that are not skipped
Accepted(dir_subtitles, video_stem, is_single_video_folder) ==
    SelectSeq(dir_subtitles, LAMBDA f :
        NameMatches(Name(f), video_stem) \/ is_single_video_folder)

FindSubtitles(video_path, all_files) ==
    MatchSubtitles(
        Accepted(FilesIn(all_files, Parent(video_path), SUBTITLE_EXTENSIONS),
                 StrLower(Stem(Name(video_path))),
                 Len(FilesIn(all_files, Parent(video_path), VIDEO_EXTENSIONS)) = 1),
        StrLower(Stem(Name(video_path))))

(* ---- scan_folder, src/scanner/directory.py:208-355 ---- *)
\* build_url_path of a file given from the course root
UrlPath(file_path) == BuildUrlPath(CourseRoot \o file_path)

RECURSIVE HasVideosRecursive(_, _)
HasVideosRecursive(vids, chapters) ==
    \/ vids # <<>>
    \/ \E k \in 1..Len(chapters) :
         HasVideosRecursive(chapters[k].videos, chapters[k].children)

\* is_wrapper_folder, lines 306-309
IsWrapperFolder(sub_videos, sub_sub_chapters) ==
    Len(sub_videos) = 1 /\ Len(sub_sub_chapters) = 0

\* a promotion that leaves the video its own title
PromoteKeepingTitle(vid, folder_name) ==
    [vid EXCEPT !.order = ExtractSortKey(folder_name)[2]]

\* lines 316-319: a promoted video takes the folder's sort number and name
Promote(vid, folder_name) ==
    [vid EXCEPT !.order = ExtractSortKey(folder_name)[2], !.title = folder_name]

\* every folder without videos is shown
ShowsWithoutVideosAlways(sub_docs, sub_sub_chapters) == TRUE

\* line 337: elif sub_docs or sub_sub_chapters
ShowsWithoutVideos(sub_docs, sub_sub_chapters) ==
    sub_docs # <<>> \/ sub_sub_chapters # <<>>

NewChapter(folder, videos, documents, children) ==
    [title |-> Name(folder), order |-> ExtractSortKey(Name(folder))[2],
     path |-> Join(folder), videos |-> videos, documents |-> documents,
     children |-> children]

\* file_path.suffix.lower(), line 256
Extension(file_path) == StrLower(Suffix(Name(file_path)))

\* lines 260-262: the subtitles found for a video, with their URL paths
WithPaths(video_path, subtitles) ==
    [k \in 1..Len(subtitles) |->
        [subtitles[k] EXCEPT !.path = UrlPath(Append(Parent(video_path), subtitles[k].file))]]

\* lines 264-271
NewVideo(file_path, order, all_files) ==
    [title |-> GetCleanTitle(Name(file_path)),
     file |-> Name(file_path),
     path |-> UrlPath(file_path),
     order |-> order,
     duration |-> 0,
     subtitles |-> WithPaths(file_path, FindSubtitles(file_path, all_files))]

\* lines 279-284
NewDocument(file_path) ==
    [type |-> GetDocumentType(Extension(file_path)),
     title |-> Name(file_path),
     file |-> Name(file_path),
     path |-> UrlPath(file_path)]

\* What the loop over the files leaves; raised: get_document_type raised.
OwnContent(videos, documents) ==
    [videos |-> videos, documents |-> documents, sub_chapters |-> <<>>,
     raised |-> \E k \in 1..Len(documents) : documents[k].type = "AttributeError"]

Videos(video_files, all_files) ==
    [k \in 1..Len(video_files) |-> NewVideo(video_files[k], k, all_files)]

Documents(document_files) ==
    [k \in 1..Len(document_files) |-> NewDocument(document_files[k])]

\* The loop over the sorted files of a folder, lines 254-285.
ScanFiles(files, all_files) ==
    OwnContent(
        Videos(SelectSeq(files, LAMBDA p : Extension(p) \in VIDEO_EXTENSIONS), all_files),
        Documents(SelectSeq(files, LAMBDA p :
            /\ Extension(p) \notin VIDEO_EXTENSIONS \cup SUBTITLE_EXTENSIONS
            /\ Extension(p) \in IMAGE_EXTENSIONS \cup DOCUMENT_EXTENSIONS)))

\* lines 229-240: the entries of a folder that are not dot-named, as paths
Paths(folder_path, names) == [k \in 1..Len(names) |-> Append(folder_path, names[k])]

ListEntries(tree, folder_path) ==
    Paths(folder_path, SelectSeq(Scandir(tree, folder_path), LAMBDA n : n[1] # "."))

ListedFiles(tree, folder_path) ==
    SelectSeq(ListEntries(tree, folder_path), LAMBDA p : p \in tree)

ListedFolders(tree, folder_path) ==
    SelectSeq(ListEntries(tree, folder_path),
              LAMBDA p : p \notin tree /\ Name(p) \notin IGNORE_FOLDERS)

\* lines 251-252: sort_items(..., key_func=lambda f: f.name)
SortByName(paths) == SortItems(paths, [k \in 1..Len(paths) |-> Name(paths[k])])

\* lines 351-355: the videos and the chapters, sorted by title
SortByTitle(all) ==
    [videos |-> SortItems(all.videos, [k \in 1..Len(all.videos) |-> all.videos[k].title]),
     documents |-> all.documents,
     sub_chapters |-> SortItems(all.sub_chapters,
                         [k \in 1..Len(all.sub_chapters) |-> all.sub_chapters[k].title]),
     raised |-> all.raised]

\* A pass of the loop in which a folder holding one video and no chapters
\* adds only its documents.
AddFolderSkippingWrappers(acc, folder, sub) ==
    [(IF Len(sub.videos) = 1 /\ Len(sub.sub_chapters) = 0
      THEN [acc EXCEPT !.documents = @ \o sub.documents]
      ELSE IF sub.videos # <<>> \/ sub.sub_chapters # <<>>
      THEN [acc EXCEPT !.sub_chapters =
               Append(@, NewChapter(folder, sub.videos, sub.documents, sub.sub_chapters))]
      ELSE acc)
     EXCEPT !.raised = @ \/ sub.raised]

\* One pass of the loop over the subfolders, lines 288-349: sub is what the
\* scan of the folder returned.
AddFolder(acc, folder, sub) ==
    [(IF IsWrapperFolder(sub.videos, sub.sub_chapters)
      THEN [acc EXCEPT
               !.videos = @ \o [k \in 1..Len(sub.videos) |->
                                   Promote(sub.videos[k], Name(folder))],
               !.documents = @ \o sub.documents]
      ELSE IF HasVideosRecursive(sub.videos, sub.sub_chapters)
      THEN [acc EXCEPT !.sub_chapters =
               Append(@, NewChapter(folder, sub.videos, sub.documents, sub.sub_chapters))]
      ELSE IF ShowsWithoutVideos(sub.documents, sub.sub_chapters)
      THEN [acc EXCEPT !.sub_chapters =
               Append(@, NewChapter(folder, <<>>, sub.documents, sub.sub_chapters))]
      ELSE acc)
     EXCEPT !.raised = @ \/ sub.raised]

RECURSIVE ScanFolder(_, _, _)
RECURSIVE ScanSubfolders(_, _, _, _)

\* The listing of a folder, the loop over its files, the loop over its
\* subfolders and the final sorting.
ScanFolder(tree, folder_path, all_files) ==
    SortByTitle(
        ScanSubfolders(tree, SortByName(ListedFolders(tree, folder_path)), all_files,
                       ScanFiles(SortByName(ListedFiles(tree, folder_path)), all_files)))

\* The loop over the subfolders, lines 287-349.
ScanSubfolders(tree, folders, all_files, acc) ==
    IF folders = <<>> THEN acc
    ELSE ScanSubfolders(tree, Tail(folders), all_files,
                        AddFolder(acc, folders[1], ScanFolder(tree, folders[1], all_files)))

(* ---- Course.to_dict, src/scanner/model.py ---- *)
RECURSIVE SumVideoCount(_)
RECURSIVE ChapterVideoCount(_)
\* Chapter.video_count
ChapterVideoCount(chapter) == Len(chapter.videos) + SumVideoCount(chapter.children)
SumVideoCount(chapters) ==
    IF chapters = <<>> THEN 0
    ELSE ChapterVideoCount(chapters[1]) + SumVideoCount(Tail(chapters))

RECURSIVE SumVideoDuration(_)
SumVideoDuration(videos) ==
    IF videos = <<>> THEN 0 ELSE videos[1].duration + SumVideoDuration(Tail(videos))

RECURSIVE SumDuration(_)
RECURSIVE ChapterDuration(_)
\* Chapter.duration
ChapterDuration(chapter) == SumVideoDuration(chapter.videos) + SumDuration(chapter.children)
SumDuration(chapters) ==
    IF chapters = <<>> THEN 0
    ELSE ChapterDuration(chapters[1]) + SumDuration(Tail(chapters))

VideoToDict(video) ==
    [type |-> "video", title |-> video.title, file |-> video.file, path |-> video.path,
     order |-> video.order, duration |-> video.duration, subtitles |-> video.subtitles]

RECURSIVE ChapterToDict(_)
ChapterToDict(chapter) ==
    [type |-> "chapter", title |-> chapter.title, order |-> chapter.order,
     path |-> chapter.path, duration |-> ChapterDuration(chapter),
     video_count |-> ChapterVideoCount(chapter),
     videos |-> [k \in 1..Len(chapter.videos) |-> VideoToDict(chapter.videos[k])],
     documents |-> chapter.documents,
     children |-> [k \in 1..Len(chapter.children) |-> ChapterToDict(chapter.children[k])]]

\* Course.to_dict, model.py:152-163 (without port)
CourseToDict(scanned) ==
    [type |-> "course", title |-> Name(CourseRoot), root_path |-> PathStr(CourseRoot),
     total_duration |-> SumVideoDuration(scanned.videos) + SumDuration(scanned.sub_chapters),
     total_videos |-> Len(scanned.videos) + SumVideoCount(scanned.sub_chapters),
     chapters |-> [k \in 1..Len(scanned.sub_chapters) |->
                      ChapterToDict(scanned.sub_chapters[k])],
     documents |-> scanned.documents,
     videos |-> [k \in 1..Len(scanned.videos) |-> VideoToDict(scanned.videos[k])]]

(* ---- generate_structure_hash, src/scanner/directory.py:89-115 ---- *)
\* os.walk hands over the names of a folder in the order the operating
\* system lists them.
Listings == {"ascending", "descending"}

Reverse(seq) == [k \in 1..Len(seq) |-> seq[Len(seq) + 1 - k]]

OsOrder(names, listing) == IF listing = "ascending" THEN names ELSE Reverse(names)

\* The (dirs, files) of one step of os.walk
WalkDirs(tree, root, listing) ==
    SelectSeq(OsOrder(Scandir(tree, root), listing), LAMBDA n : Append(root, n) \notin tree)

WalkFiles(tree, root, listing) ==
    SelectSeq(OsOrder(Scandir(tree, root), listing), LAMBDA n : Append(root, n) \in tree)

\* The names as os.walk handed them over.
Unsorted(names) == names

\* sorted(): distinct strings in the order of their code points
SortedStrings(names) ==
    [r \in 1..Len(names) |->
        names[CHOOSE k \in 1..Len(names) :
                 Cardinality({j \in 1..Len(names) : StrLess(names[j], names[k])}) = r - 1]]

\* line 99
KeptDirs(dirs) ==
    SortedStrings(SelectSeq(dirs, LAMBDA d : d \notin IGNORE_FOLDERS /\ d[1] # "."))

\* lines 103-105
KeptFiles(files) == SelectSeq(SortedStrings(files), LAMBDA f : f[1] # ".")

\* int(stat.st_mtime): st_mtime is a time in tenths of a second
WholeSeconds(st_mtime) == st_mtime \div 10

\* os.path.relpath(root, root_path)
RelRoot(root) == IF root = <<>> THEN <<".">> ELSE Join(root)

\* line 110: f"{rel_root}/{f}|{stat.st_size}|{int(stat.st_mtime)}"
HashLine(root, f, st) ==
    RelRoot(root) \o <<"/">> \o f \o <<"|">> \o Digits(st.st_size)
        \o <<"|">> \o Digits(WholeSeconds(st.st_mtime))

\* lines 103-112: the lines of the files of one folder
HashLines(root, files, stat) ==
    [k \in 1..Len(files) |-> HashLine(root, files[k], stat[Append(root, files[k])])]

\* lines 97-112: the lines of a folder, then those of its folders in turn
RECURSIVE HashData(_, _, _, _)
RECURSIVE HashDataOfDirs(_, _, _, _, _)
HashData(tree, stat, listing, root) ==
    HashLines(root, KeptFiles(WalkFiles(tree, root, listing)), stat)
        \o HashDataOfDirs(tree, stat, listing, root, KeptDirs(WalkDirs(tree, root, listing)))

HashDataOfDirs(tree, stat, listing, root, dirs) ==
    IF dirs = <<>> THEN <<>>
    ELSE HashData(tree, stat, listing, Append(root, dirs[1]))
             \o HashDataOfDirs(tree, stat, listing, root, Tail(dirs))

\* "\n".join(hash_data)
RECURSIVE JoinLines(_)
JoinLines(lines) ==
    IF lines = <<>> THEN <<>>
    ELSE IF Len(lines) = 1 THEN lines[1]
    ELSE lines[1] \o <<"\n">> \o JoinLines(Tail(lines))

\* hashlib.md5(content).hexdigest(): the digest stands for the content it
\* was computed from (no two contents of the model share a digest).
Md5(content) == [md5 |-> content]

GenerateStructureHash(tree, stat, listing) ==
    Md5(JoinLines(HashData(tree, stat, listing, <<>>)))

(* ---- scan_directory, src/scanner/directory.py:407-435 ---- *)
\* lines 417-421: get_all_files and scan_folder of the root, each with its
\* own listing of every folder
ScanRoot(tree, failure) ==
    ScanFolder(Seen(tree, failure, "scan_folder"), <<>>,
               GetAllFiles(Seen(tree, failure, "get_all_files")))

\* lines 423-435: the course as a dict, with the fingerprint
ScanResult(scanned, structure_hash) ==
    [raised |-> scanned.raised,
     course |-> CourseToDict(scanned) @@ [structure_hash |-> structure_hash]]

\* scan_directory; scanned is ScanRoot(tree, failure), which reads neither
\* stat nor the order of os.walk
ScanDirectory(scanned, tree, stat, listing, failure) ==
    ScanResult(scanned,
               GenerateStructureHash(Seen(tree, failure, "os.walk"), stat, listing))

(* ---- GET /api/playlist, server.py:734-741 ---- *)
\* The files a course folder may hold when it is scanned.
TreeFiles ==
    { << <<"a", "1", ".", "m", "p", "4">> >>,
      << <<"a", "1", "0", ".", "m", "p", "4">> >>,
      << <<"a", "1", "0", ".", "s", "r", "t">> >>,
      << <<"2", " ", "w">>, <<"v", ".", "m", "p", "4">> >>,
      << <<"2", " ", "w">>, <<"e", "n", ".", "s", "r", "t">> >>,
      << <<"2", " ", "w">>, <<"u", ".", "m", "k", "v">> >>,
      << <<"2", " ", "w">>, <<"n", ".", "p", "d", "f">> >>,
      << <<"2", " ", "w">>, <<"d">>, <<"m", ".", "t", "x", "t">> >>,
      << <<"p">>, <<"q">>, <<"v", ".", "m", "p", "4">> >>,
      << <<"p">>, <<"x", ".", "d", "o", "c", "x">> >>,
      << <<"e">>, <<"s", ".", "s", "r", "t">> >>,
      << <<"t", "r", "a", "s", "h">>, <<"v", ".", "m", "p", "4">> >> }

MaxTreeFiles == 4   \* files in the course folder when it is scanned
Trees == {tree \in SUBSET TreeFiles : Cardinality(tree) <= MaxTreeFiles}

NoPlaylist == [type |-> "none"]

\* send_json(playlist), or send_error(500) when the scan raised
SendPlaylist(scanned) ==
    IF scanned.raised
    THEN [status |-> 500, playlist |-> NoPlaylist]
    ELSE [status |-> 200, playlist |-> scanned.course]

\* os.stat of the files: sizes in bytes, times in tenths of a second
FileStats == {[st_size |-> 1, st_mtime |-> 10], [st_size |-> 12, st_mtime |-> 125]}

Stats(tree) == {[p \in tree |-> st] : st \in FileStats}

\* The listing of one folder fails: once, in one of the two listings of the
\* scan, or every time.
Failures(tree) ==
    {[folder |-> folder, listings |-> listings] :
        folder \in {<<>>} \cup {f \in Folders(tree) : Visible(f)},
        listings \in {{"get_all_files"}, {"scan_folder"},
                      {"os.walk", "get_all_files", "scan_folder"}}}

\* handle_playlist
HandlePlaylist(scanned, tree, stat, listing, failure) ==
    SendPlaylist(ScanDirectory(scanned, tree, stat, listing, failure))

\* do_GET, line 590: the course folder holds tree, and failure tells which
\* listings fail. The folders are scanned once for the fingerprints taken.
PlaylistRequested(tree, failure) ==
    LET scanned == ScanRoot(tree, failure)
    IN  \E stat \in Stats(tree) : \E listing \in Listings :
          event' = [kind |-> "playlist_response", tree |-> tree, stat |-> stat,
                    listing |-> listing, failure |-> failure,
                    response |-> HandlePlaylist(scanned, tree, stat, listing, failure)]

\* A GET /api/playlist request is handled, every folder being listed.
HandlePlaylistRequest ==
    /\ main_pc = "serving"
    /\ event = NoEvent
    /\ \E tree \in Trees : PlaylistRequested(tree, NoFailure)
    /\ UNCHANGED <<nvenc, proc, main_pc, conversion_state, to_convert, fs, temp, scan, threads>>

\* A GET /api/playlist request is handled, the listing of a folder failing.
HandlePlaylistRequestListingFails ==
    /\ main_pc = "serving"
    /\ event = NoEvent
    /\ \E tree \in Trees : \E failure \in Failures(tree) : PlaylistRequested(tree, failure)
    /\ UNCHANGED <<nvenc, proc, main_pc, conversion_state, to_convert, fs, temp, scan, threads>>

\* Numbered lesson files lying in the course folder itself.
NumberedFiles ==
    { << <<"1", "_", "i", "n", "t", "r", "o", ".", "m", "p", "4">> >>,
      << <<"2", "_", "b", "a", "s", "i", "c", "s", ".", "m", "p", "4">> >>,
      << <<"1", "0", "_", "x", ".", "m", "p", "4">> >>,
      << <<"3", "_", "c", ".", "m", "k", "v">> >>,
      << <<"b", ".", "m", "p", "4">> >> }

NumberedTrees == SUBSET NumberedFiles

\* A GET /api/playlist request is handled for a course folder of numbered
\* lessons, every folder being listed.
HandlePlaylistRequestNumbered ==
    /\ main_pc = "serving"
    /\ event = NoEvent
    /\ \E tree \in NumberedTrees : PlaylistRequested(tree, NoFailure)
    /\ UNCHANGED <<nvenc, proc, main_pc, conversion_state, to_convert, fs, temp, scan, threads>>

\* server.py:387: file_path.parent / f'_converting_{os.getpid()}.mp4', for
\* the process id 7
TempPath(file_path) ==
    Append(Parent(file_path),
           <<"_", "c", "o", "n", "v", "e", "r", "t", "i", "n", "g", "_", "7",
             ".", "m", "p", "4">>)

\* The files a batch thread may be converting, and the other files of the
\* course folder.
ConvertedFiles ==
    { << <<"a", ".", "m", "k", "v">> >>,
      << <<"2", " ", "w">>, <<"b", ".", "a", "v", "i">> >>,
      << <<"p">>, <<"u", ".", "m", "k", "v">> >> }

OtherFiles ==
    { << <<"a", "1", ".", "m", "p", "4">> >>,
      << <<"2", " ", "w">>, <<"n", ".", "p", "d", "f">> >>,
      << <<"p">>, <<"q">>, <<"v", ".", "m", "p", "4">> >> }

\* What the course folder holds while _convert_single_video works on
\* file_path: the temporary file next to the original from the start of ffmpeg
\* (line 389) to line 466, and without the original between its unlink (line
\* 466) and the rename of the temporary file onto its name (line 467).
ConversionSteps == {"encoding", "unlinked"}

DuringConversion(idle, file_path, step) ==
    IF step = "encoding" THEN idle \cup {TempPath(file_path)}
    ELSE (idle \ {file_path}) \cup {TempPath(file_path)}

\* A GET /api/playlist request is handled while a batch thread converts a
\* file of the course folder (the handler threads and the batch thread run
\* side by side), every folder being listed.
HandlePlaylistRequestConverting ==
    /\ main_pc = "serving"
    /\ event = NoEvent
    /\ \E file_path \in ConvertedFiles : \E others \in SUBSET OtherFiles :
       \E step \in ConversionSteps :
         LET idle    == others \cup {file_path}
             tree    == DuringConversion(idle, file_path, step)
             scanned == ScanRoot(tree, NoFailure)
         IN  \E stat \in Stats(tree) : \E listing \in Listings :
               event' = [kind |-> "playlist_response", tree |-> tree, stat |-> stat,
                         listing |-> listing, failure |-> NoFailure,
                         converting |-> file_path, idle |-> idle,
                         response |-> HandlePlaylist(scanned, tree, stat, listing, NoFailure)]
    /\ UNCHANGED <<nvenc, proc, main_pc, conversion_state, to_convert, fs, temp, scan, threads>>

\* The client has read the response.
ResponseRead ==
    /\ event.kind \in {"media_response", "playlist_response", "duration_response"}
    /\ event' = NoEvent
    /\ UNCHANGED <<nvenc, proc, main_pc, conversion_state, to_convert, fs, temp, scan, threads>>

(* ---- the functions of the scanner and of the scan, called on their own ---- *)
MaxNames == 3       \* names in a collection given to sort_items
MaxStreams == 2     \* streams of a probed file

\* The names sorted: numbers at the start, after a word and at the end (2 and
\* 10 of each kind), two names with the same key, dash-prefixed names, names
\* without a number, and numbered names after a word that starts with a
\* non-ASCII letter or with tildes.
SortedNames ==
    { <<"2", "_", "a">>, <<"1", "0", "_", "a">>, <<"0", "2", "_", "a">>,
      <<"c", " ", "2">>, <<"c", " ", "1", "0">>,
      <<"x", "_", "2">>, <<"x", "_", "1", "0">>,
      <<"-", "a">>, <<"-", "1">>,
      <<"b">>, <<"B">>,
      <<"U+E9", " ", "1">>, <<"~", "~", "~", "~", " ", "1">> }

NameLists == UNION {[1..n -> SortedNames] : n \in 0..MaxNames}

\* sort_items(names), key_func being the identity (lines 101-102)
SortItemsCall ==
    /\ event = NoEvent
    /\ \E names \in NameLists :
         event' = [kind |-> "sort_items", items |-> names,
                   sorted |-> SortItems(names, names)]
    /\ UNCHANGED <<nvenc, proc, main_pc, conversion_state, to_convert, fs, temp, scan, threads>>

\* What ffprobe can report: nothing, or a container and up to MaxStreams
\* streams.
ProbedStreams ==
    {VideoStream(codec, profile, pix) :
        codec \in {"h264", "H264", "hevc", "mpeg4"},
        profile \in {"High", "High 10", "Main"},
        pix \in {"yuv420p", "yuv420p10le"}}
    \cup {AudioStream(codec) : codec \in {"aac", "ac3"}}

ProbeResults ==
    {NoData}
    \cup {ProbeData(fmt, MaxDur, streams) :
            fmt \in {MP4, MKV, "avi"},
            streams \in UNION {[1..n -> ProbedStreams] : n \in 0..MaxStreams}}

\* check_video_compatibility(file_path), the probe of the file giving data
CheckVideoCompatibilityCall ==
    /\ event = NoEvent
    /\ \E data \in ProbeResults :
         event' = [kind |-> "check_video_compatibility", data |-> data,
                   result |-> CheckVideoCompatibility(data)]
    /\ UNCHANGED <<nvenc, proc, main_pc, conversion_state, to_convert, fs, temp, scan, threads>>

\* The caller has the result.
CallReturned ==
    /\ event.kind \in {"sort_items", "check_video_compatibility"}
    /\ event' = NoEvent
    /\ UNCHANGED <<nvenc, proc, main_pc, conversion_state, to_convert, fs, temp, scan, threads>>

(* ---- _run_ffmpeg_with_progress, src/server.py:216-267 ---- *)
PipeCapacity == 1   \* chunks a pipe holds: a write to a full pipe blocks
MaxWrites == 4      \* chunks an encoder writes before it exits

Streams == {"stdout", "stderr"}

\* What the encoder writes: to stdout the lines of -progress pipe:1, with
\* out_time_us given in seconds, to stderr its diagnostics.
Chunks(stream) ==
    IF stream = "stdout"
    THEN {[key |-> "frame", seconds |-> 0], [key |-> "out_time_us", seconds |-> 0],
          [key |-> "out_time_us", seconds |-> MaxDur]}
    ELSE {[key |-> "diagnostic", seconds |-> 0]}

\* What the encoder does after writes chunks: it writes to a stream or exits.
NextWrites(writes) == IF writes >= MaxWrites THEN {"exit"} ELSE Streams \cup {"exit"}

\* lines 226-240: the encoder is started with both streams piped, and the
\* thread that drains stderr with it. returncode is -1 while it is None.
Popen ==
    /\ proc = NoProcess
    /\ \E duration \in {0, MaxDur} : \E next \in NextWrites(0) :
         proc' = [pc |-> "stdout", duration |-> duration, last_pct |-> -1,
                  stdout |-> <<>>, stderr |-> <<>>,
                  encoder |-> [next |-> next, written |-> [s \in Streams |-> 0],
                               exited |-> FALSE, returncode |-> -1],
                  stderr_thread |-> "draining", stderr_chunks |-> 0,
                  result |-> [returncode |-> -1, stderr |-> 0]]
    /\ UNCHANGED <<nvenc, main_pc, conversion_state, to_convert, fs, temp, scan, threads, event>>

\* The encoder writes a chunk to the stream it is at, once the pipe has room.
EncoderWrite ==
    /\ proc.pc # "none"
    /\ ~proc.encoder.exited
    /\ proc.encoder.next \in Streams
    /\ Len(proc[proc.encoder.next]) < PipeCapacity
    /\ \E chunk \in Chunks(proc.encoder.next) :
         \E next \in NextWrites(proc.encoder.written["stdout"]
                                  + proc.encoder.written["stderr"] + 1) :
           proc' = [proc EXCEPT ![proc.encoder.next] = Append(@, chunk),
                                !.encoder.written[proc.encoder.next] = @ + 1,
                                !.encoder.next = next]
    /\ UNCHANGED <<nvenc, main_pc, conversion_state, to_convert, fs, temp, scan, threads, event>>

\* The encoder exits: both pipes are closed at its end.
EncoderExit ==
    /\ proc.pc # "none"
    /\ ~proc.encoder.exited
    /\ proc.encoder.next = "exit"
    /\ \E returncode \in {0, 1} :
         proc' = [proc EXCEPT !.encoder.exited = TRUE, !.encoder.returncode = returncode]
    /\ UNCHANGED <<nvenc, main_pc, conversion_state, to_convert, fs, temp, scan, threads, event>>

\* lines 242-256: one pass of "for line in proc.stdout", which blocks while
\* the pipe is empty and open, and ends at the end of the stream.
ReadStdout ==
    /\ proc.pc = "stdout"
    /\ \/ /\ proc.stdout # <<>>
          /\ LET line == Head(proc.stdout)
                 pct == Progress(line.seconds, proc.duration)
                 shown == /\ line.key = "out_time_us"
                          /\ proc.duration > 0
                          /\ pct # proc.last_pct
             IN  /\ proc' = [proc EXCEPT !.stdout = Tail(@),
                                         !.last_pct = IF shown THEN pct ELSE @]
                 /\ conversion_state' =
                        IF shown THEN [conversion_state EXCEPT !.percent = pct]
                        ELSE conversion_state
       \/ /\ proc.stdout = <<>>
          /\ proc.encoder.exited
          /\ proc' = [proc EXCEPT !.pc = "wait"]
          /\ UNCHANGED conversion_state
    /\ UNCHANGED <<nvenc, main_pc, to_convert, fs, temp, scan, threads, event>>

\* lines 237-238: one pass of "for chunk in proc.stderr"
ReadStderr ==
    /\ \/ /\ proc.stderr # <<>>
          /\ proc' = [proc EXCEPT !.stderr = Tail(@), !.stderr_chunks = @ + 1]
       \/ /\ proc.stderr = <<>>
          /\ proc.encoder.exited
          /\ proc' = [proc EXCEPT !.stderr_thread = "finished"]
    /\ UNCHANGED <<nvenc, main_pc, conversion_state, to_convert, fs, temp, scan, threads, event>>

\* stderr read by the thread that reads stdout, after the loop over stdout
DrainStderrAfterStdout ==
    /\ proc.pc \in {"wait", "join", "returned"}
    /\ proc.stderr_thread = "draining"
    /\ ReadStderr

\* lines 236-240: drain_stderr, run by its own thread from the start
DrainStderr ==
    /\ proc.pc # "none"
    /\ proc.stderr_thread = "draining"
    /\ ReadStderr

\* line 258: proc.wait()
ProcWait ==
    /\ proc.pc = "wait"
    /\ proc.encoder.exited
    /\ proc' = [proc EXCEPT !.pc = "join"]
    /\ UNCHANGED <<nvenc, main_pc, conversion_state, to_convert, fs, temp, scan, threads, event>>

\* lines 259-267: stderr_thread.join(timeout=5) ends when the thread has
\* finished or after five seconds; then the return code and the
\* diagnostics collected so far are returned.
JoinStderrThread ==
    /\ proc.pc = "join"
    /\ proc' = [proc EXCEPT !.pc = "returned",
                            !.result = [returncode |-> proc.encoder.returncode,
                                        stderr |-> proc.stderr_chunks]]
    /\ UNCHANGED <<nvenc, main_pc, conversion_state, to_convert, fs, temp, scan, threads, event>>

\* The caller has the result.
RunReturned ==
    /\ proc.pc = "returned"
    /\ proc' = NoProcess
    /\ UNCHANGED <<nvenc, main_pc, conversion_state, to_convert, fs, temp, scan, threads, event>>

(* ---- the environment ---- *)
\* Someone deletes a video of the course folder.
ExternalDelete(path) ==
    /\ Exists(path)
    /\ Cardinality({p \in Files : fs[p] = "gone"}) < MaxDeletes
    /\ fs' = [fs EXCEPT ![path] = "gone"]
    /\ event' = NoEvent
    /\ UNCHANGED <<nvenc, proc, main_pc, conversion_state, to_convert, temp, scan, threads>>

Next ==
    \/ MainStartScan
    \/ MainServe
    \/ ScanStart
    \/ ScanWalk
    \/ ScanCheck
    \/ ScanStore
    \/ ScanPublishPhase
    \/ ScanPublishList
    \/ HandleStartConversion
    \/ HandleConversionStatus
    \/ \E path \in Files : ExternalDelete(path)
    \/ \E th \in Running : BatchCheck(th)
    \/ \E th \in Running : BatchBegin(th)
    \/ \E th \in Running : BatchLoop(th)
    \/ \E th \in Running : BatchFinish(th)
    \/ \E th \in Running : ConvertEncode(th)
    \/ \E th \in Running : ConvertVerify(th)
    \/ \E th \in Running : ConvertUnlink(th)
    \/ \E th \in Running : ConvertRename(th)

Spec == Init /\ [][Next]_vars

\* The server answering media requests (the handler reads no state that the
\* scan or a batch writes).
NextMedia ==
    \/ MainStartScan
    \/ MainServe
    \/ HandleMediaRequest
    \/ ResponseRead

SpecMedia == Init /\ [][NextMedia]_vars

\* The server answering playlist requests (the scanner reads the course
\* folder and nothing of the conversion state).
NextScan ==
    \/ MainStartScan
    \/ MainServe
    \/ HandlePlaylistRequest
    \/ ResponseRead

SpecScan == Init /\ [][NextScan]_vars

NextScanListingFails ==
    \/ MainStartScan
    \/ MainServe
    \/ HandlePlaylistRequest
    \/ HandlePlaylistRequestListingFails
    \/ ResponseRead

SpecScanListingFails == Init /\ [][NextScanListingFails]_vars

NextScanNumbered ==
    \/ MainStartScan
    \/ MainServe
    \/ HandlePlaylistRequestNumbered
    \/ ResponseRead

\* The server answering duration requests.
NextDuration ==
    \/ MainStartScan
    \/ MainServe
    \/ HandleDurationRequest
    \/ ResponseRead

SpecDuration == Init /\ [][NextDuration]_vars

SpecScanNumbered == Init /\ [][NextScanNumbered]_vars

NextScanConverting ==
    \/ MainStartScan
    \/ MainServe
    \/ HandlePlaylistRequestConverting
    \/ ResponseRead

SpecScanConverting == Init /\ [][NextScanConverting]_vars

\* The functions called on their own (they read no state).
NextCalls ==
    \/ SortItemsCall
    \/ CheckVideoCompatibilityCall
    \/ CallReturned

SpecCalls == Init /\ [][NextCalls]_vars

NextEncoder ==
    \/ Popen
    \/ EncoderWrite
    \/ EncoderExit
    \/ ReadStdout
    \/ DrainStderr
    \/ ProcWait
    \/ JoinStderrThread
    \/ RunReturned

\* The encoder, the thread that called _run_ffmpeg_with_progress and the
\* thread that drains stderr are each scheduled while they can take a step.
SpecEncoder ==
    /\ Init
    /\ [][NextEncoder]_vars
    /\ WF_vars(EncoderWrite)
    /\ WF_vars(EncoderExit)
    /\ WF_vars(ReadStdout)
    /\ WF_vars(DrainStderr)
    /\ WF_vars(ProcWait)
    /\ WF_vars(JoinStderrThread)

(* ======================= properties ======================= *)
Phase == conversion_state.phase

\* The threads that are inside _convert_single_video, with their multiplicity.
ConvertingThreads == [th \in {t \in Running : Converting(t)} |-> threads[th]]

\* A batch thread that has neither returned nor died with an exception.
Alive(th) == th.pc \notin {"exit", "crashed"}

\* C1: at any moment at most one file is being converted: no two batch threads
\* are inside _convert_single_video (encoder run, verification, replacement)
\* at the same time, also when several POST /api/convert arrive while the phase
\* is still waiting.
C1_OneConversionAtATime == BagCardinality(ConvertingThreads) <= 1

\* C2: a POST /api/convert received while the phase is not waiting is answered
\* success=false, starts no batch thread and leaves the conversion state (and
\* the pending list and the files) as they were.
C2_RejectedOutsideWaiting ==
    [][(event'.kind = "convert_response" /\ Phase # "waiting")
         => /\ event'.success = FALSE
            /\ threads' = threads
            /\ conversion_state' = conversion_state
            /\ to_convert' = to_convert
            /\ fs' = fs /\ temp' = temp]_vars

\* A POST /api/convert has just been refused while a batch was converting.
C2_Witness ==
    /\ event.kind = "convert_response"
    /\ event.success = FALSE
    /\ Phase = "converting"
    /\ \E th \in Running : Converting(th)

\* C3: the phase leaves waiting only after a POST /api/convert was accepted, a
\* batch thread is started only by a POST accepted while the phase is waiting,
\* and as long as none was accepted the server converts and replaces nothing
\* (files change only by deletion from outside).
C3_WaitingNeedsConfirmation ==
    [][/\ (Phase = "waiting" /\ Phase' # "waiting") => NumThreads > 0
       /\ NumThreads' # NumThreads =>
              /\ Phase = "waiting"
              /\ NumThreads' = NumThreads + 1
              /\ event' = [kind |-> "convert_response", success |-> TRUE]
       /\ NumThreads' = 0 =>
              /\ temp' = temp
              /\ \A p \in Files : fs'[p] = fs[p] \/ fs'[p] = "gone"
              /\ Phase = "waiting" => Phase' = "waiting"]_vars

\* The phase has left waiting for converting after exactly one accepted POST.
C3_Witness ==
    /\ Phase = "converting"
    /\ NumThreads = 1
    /\ \E th \in Running : th.pc = "loop" /\ th.i = 1

\* C4, as a finite run refutes it: while the phase is converting some batch
\* thread is still alive to bring it to done. (A state where the phase is
\* converting and every batch thread has ended is one from which the phase
\* never becomes done: no later POST is accepted, the phase not being waiting.)
C4_ConvertingReachesDone ==
    Phase = "converting" => \E th \in Running : Alive(th)

\* The phase changes the claim lists.
ClaimedPhaseChanges ==
    {<<"scanning", "waiting">>, <<"waiting", "done">>,
     <<"waiting", "converting">>, <<"converting", "done">>}

\* The phase changes of the code: the scan goes from scanning to done directly
\* when nothing needs converting (lines 289-292, 309-312); the dict starts with
\* phase '' (line 81); a second batch thread that passed line 343 before the
\* first one finished sets converting after done.
ActualPhaseChanges ==
    {<<"", "scanning">>, <<"scanning", "waiting">>, <<"scanning", "done">>,
     <<"waiting", "converting">>, <<"converting", "done">>, <<"done", "converting">>}

\* C5 as claimed: every change of the phase (after the scan has set it for the
\* first time) is one of scanning->waiting, waiting->done, waiting->converting,
\* converting->done.
C5_ClaimedPhaseChanges ==
    [][(Phase' # Phase /\ Phase # "") => <<Phase, Phase'>> \in ClaimedPhaseChanges]_vars

\* C5 amended: every change of the phase is one of ''->scanning,
\* scanning->waiting, scanning->done, waiting->converting, converting->done,
\* done->converting; in particular done is reached from scanning without passing
\* through waiting when no file needs repair, and never from waiting.
C5_PhaseChanges ==
    [][Phase' # Phase => <<Phase, Phase'>> \in ActualPhaseChanges]_vars

\* The scan found nothing to convert: done without any waiting, no batch started.
C5_Witness ==
    /\ Phase = "done"
    /\ scan.pc = "exit"
    /\ scan.video_files # <<>>
    /\ NumThreads = 0

\* The compatibility loop of the scan (lines 298-306) has not completed.
ScanUnfinished == scan.pc \in {"unstarted", "start", "walk", "check"}

\* C6: every snapshot GET /api/conversion-status returns has a phase among
\* scanning, waiting, converting, done, and the phase is scanning until the
\* compatibility scan has finished.
C6_StatusPhase ==
    event.kind = "status_response" =>
        /\ event.snapshot.phase \in {"scanning", "waiting", "converting", "done"}
        /\ ScanUnfinished => event.snapshot.phase = "scanning"

\* C7, for a single batch and a file nobody else deleted: whenever
\* _convert_single_video returns False the original is still at its path.
C7_FailureKeepsOriginal ==
    (/\ event.kind = "convert"
     /\ event.returned = "false"
     /\ NumThreads = 1
     /\ fs[event.path] # "gone")
        => fs[event.path] = "orig"

\* C8 as claimed: at all times the path of every file (that nobody else
\* deleted) holds the original or the verified conversion, never nothing.
C8_NeverNothing == \A p \in Files : fs[p] # "none"

\* C8 amended: the replacement is two steps, not one. A path changes only by
\* deletion from outside, by the unlink of a batch thread that is past a
\* successful verification of that file (line 466), which leaves the path
\* empty, or by the rename of such a thread (line 467), which fills the empty
\* path with the converted file.
C8_ReplacementSteps ==
    [][\A p \in Files :
          fs'[p] # fs[p] =>
             \/ fs'[p] = "gone"
             \/ /\ fs'[p] = "none"
                /\ \E th \in Running : th.pc = "unlink" /\ FilePath(th) = p
                /\ event' = ConvertEvent(p, "unlink", <<>>, "none")
             \/ /\ fs[p] = "none" /\ fs'[p] = "conv"
                /\ \E th \in Running : th.pc = "rename" /\ FilePath(th) = p
                /\ event' = ConvertEvent(p, "rename", <<>>, "true")]_vars

\* Between the two steps: the original is deleted, the converted file still
\* under its temporary name.
C8_Witness ==
    \E th \in Running :
        /\ th.pc = "rename"
        /\ fs[FilePath(th)] = "none"
        /\ temp.exists

\* A verification has just compared durations more than 2 seconds apart.
DurationsDiffer ==
    /\ event.kind = "convert"
    /\ event.step = "verify"
    /\ Abs(event.orig_dur - event.conv_dur) > DurationTolerance

\* C9 as claimed: whatever the original's probed duration (0 and unprobeable
\* included), a converted file whose duration differs from it by more than 2
\* seconds is rejected.
C9_DurationMismatchRejected == DurationsDiffer => event.returned = "false"

\* C9 amended: if the original's probed duration is greater than 0 and the
\* converted file's probed duration differs from it by more than 2 seconds,
\* verification rejects the converted file and the step leaves the files as
\* they are. (With an original duration of 0 or no probe, line 188 skips the
\* comparison.)
C9_PositiveDurationMismatchRejected ==
    [][(DurationsDiffer' /\ event'.orig_dur > 0)
          => (event'.returned = "false" /\ fs' = fs)]_vars

\* A conversion has just been rejected for its duration alone: the original
\* lasts one second, the converted file (a readable video, its duration being
\* positive) MaxDur seconds, and the original is still in place.
C9_Witness ==
    /\ DurationsDiffer
    /\ event.orig_dur = 1
    /\ event.conv_dur = MaxDur
    /\ event.returned = "false"
    /\ fs[event.path] = "orig"

\* C10: after a run of the hardware encoder that exited non-zero, exactly one
\* more encode of the file is run, and it uses libx264.
C10_SoftwareRetry ==
    (event.kind = "convert" /\ event.step = "encode") =>
        \A k \in 1..Len(event.runs) :
            (event.runs[k].vcodec = "h264_nvenc" /\ k < Len(event.runs))
               => /\ Len(event.runs) = k + 1
                  /\ event.runs[k + 1].vcodec = "libx264"

\* The encoder runs of a file in remux mode have just ended.
RemuxEncoded ==
    /\ event.kind = "convert"
    /\ event.step = "encode"
    /\ event.runs # <<>>
    /\ event.runs[1] = RemuxRun

TranscodeLabels == {"Transcoding (NVENC)", "Transcoding (x264)"}

\* C11: for a file in remux mode a non-zero exit of the stream copy is never
\* the file's failure: when the file is failed for a non-zero exit, the run
\* that exited non-zero is a transcode run made after the stream copy, and when
\* the last run (stream copy or transcode) exits 0 the file goes on to
\* verification. (Runs that end with an exception, for instance ffmpeg that
\* cannot be started, take the except block of lines 472-480.)
C11_RemuxFallsBackToTranscode ==
    RemuxEncoded =>
        /\ event.ended = "failed" =>
               /\ Len(event.runs) >= 2
               /\ event.runs[Len(event.runs)].label \in TranscodeLabels
        /\ \A k \in 2..Len(event.runs) : event.runs[k].label \in TranscodeLabels
        /\ event.ended = "ok" =>
               /\ event.returned = "none"
               /\ \E th \in Running : th.pc = "verify" /\ FilePath(th) = event.path
        /\ event.ended # "ok" => event.returned = "false"

\* The stream copy of a.mkv exited non-zero, the transcode that followed exited
\* 0, and the file is about to be verified.
C11_Witness ==
    /\ RemuxEncoded
    /\ Len(event.runs) = 2
    /\ event.ended = "ok"
    /\ temp.exists
    /\ \E th \in Running : th.pc = "verify" /\ FilePath(th) = event.path

\* C12, for a single batch: a batch thread that has stopped has attempted
\* every file of the list it took (in list order, i counting them), and every
\* attempt was counted as a success or as a failure.
C12_EveryFileAttempted ==
    NumThreads = 1 =>
        \A th \in Running :
            (~Alive(th) /\ th.lst # <<>>) =>
                /\ th.i = Len(th.lst) + 1
                /\ th.success + th.failed = Len(th.lst)

(* ---- properties of the media handler ---- *)
\* A path is the course root or inside it.
InsideCourse(path) ==
    Len(path) >= Len(CourseRoot) /\ SubSeq(path, 1, Len(CourseRoot)) = CourseRoot

MediaResponse == event.kind = "media_response"

\* The request reached a file of the course.
ServedCourseFile ==
    /\ MediaResponse
    /\ InsideCourse(event.response.resolved)
    /\ IsFile(event.response.resolved)

\* The header bytes=start-end, and bytes=start- .
ByteRange(start, end) == <<"bytes=">> \o Digits(start) \o <<"-">> \o Digits(end)
OpenRange(start) == <<"bytes=">> \o Digits(start) \o <<"-">>

\* The header is bytes=<start>-<end?> and nothing else.
ParsesAsByteRange(header) ==
    /\ header # <<>>
    /\ MatchesAt(header, 1)
    /\ LET group1 == DigitRun(header, 2)
           group2 == DigitRun(header, 3 + Len(group1))
       IN  Len(header) = 2 + Len(group1) + Len(group2)

\* C13: a media request whose decoded path resolves to a location that is
\* neither the course root nor inside it is answered 403, and no byte of a
\* file is sent.
C13_OutsideIsForbidden ==
    (MediaResponse /\ ~InsideCourse(event.response.resolved))
        => /\ event.response.status = 403
           /\ event.response.file = NoFile
           /\ event.response.body = <<>>

\* C14: for a file of length L of the course and a header Range: bytes=s-e
\* with 0 <= s <= e < L, the response is 206 with Content-Range bytes s-e/L,
\* Content-Length e-s+1 and a body that is exactly bytes s..e of the file.
C14_PartialContent ==
    ServedCourseFile =>
        \A s, e \in 0..MaxOffset :
            (event.range = ByteRange(s, e) /\ s <= e /\ e < FileSize(event.response.resolved))
                => /\ event.response.status = 206
                   /\ event.response.content_range = <<s, e, FileSize(event.response.resolved)>>
                   /\ event.response.content_length = e - s + 1
                   /\ event.response.file = event.response.resolved
                   /\ Len(event.response.body) = e - s + 1
                   /\ \A k \in 1..(e - s + 1) :
                         event.response.body[k] = FileBytes(event.response.resolved)[s + k]

\* Bytes 1-2 of the three bytes of /c/py/v have been served.
C14_Witness ==
    /\ ServedCourseFile
    /\ event.response.resolved = CourseRoot \o << <<"v">> >>
    /\ event.range = ByteRange(1, 2)
    /\ event.response.status = 206
    /\ event.response.body = <<12, 13>>

\* C15: a Range request whose start offset is >= the length L of the file is
\* answered 416 with Content-Range: bytes */L (written <<L>>).
C15_UnsatisfiableAdvertisesLength ==
    ServedCourseFile =>
        \A s \in 0..MaxOffset :
            (/\ s >= FileSize(event.response.resolved)
             /\ \/ event.range = OpenRange(s)
                \/ \E e \in 0..MaxOffset : event.range = ByteRange(s, e))
                => /\ event.response.status = 416
                   /\ event.response.content_range = <<FileSize(event.response.resolved)>>

\* C16: a Range header that does not parse as bytes=<start>-<end?> gets the
\* response of the same request without a Range header: 200, Content-Length
\* the size of the file, the whole file as body.
C16_MalformedRangeIgnored ==
    (ServedCourseFile /\ event.range # <<>> /\ ~ParsesAsByteRange(event.range))
        => event.response = DoGetMedia(event.path, <<>>)

\* C17: a GET of the URL build_url_path gives for a file of the course is
\* resolved by the server to exactly that file, whatever characters its path
\* segments contain.
C17_UrlRoundTrip ==
    \A k \in 1..Len(CourseFiles) :
        (MediaResponse /\ event.path = BuildUrlPath(CourseFiles[k].path) /\ event.range = <<>>)
            => /\ event.response.status = 200
               /\ event.response.file = CourseFiles[k].path
               /\ event.response.body = FileBytes(CourseFiles[k].path)

(* ---- properties of the scanner ---- *)
\* A playlist was sent after a scan in which every listing succeeded.
PlaylistResponse ==
    /\ event.kind = "playlist_response"
    /\ event.response.status = 200
    /\ event.failure = NoFailure

\* The chapters of a chapter list, at every depth.
RECURSIVE AllChapters(_)
AllChapters(chapters) ==
    UNION {{chapters[k]} \cup AllChapters(chapters[k].children) : k \in 1..Len(chapters)}

\* The videos of a playlist, wherever they are listed.
AllVideos(playlist) ==
    {playlist.videos[k] : k \in 1..Len(playlist.videos)}
    \cup UNION {{c.videos[k] : k \in 1..Len(c.videos)} : c \in AllChapters(playlist.chapters)}

IsVideoFile(p) == StrLower(Suffix(Name(p))) \in VIDEO_EXTENSIONS
IsDocumentFile(p) ==
    StrLower(Suffix(Name(p))) \in IMAGE_EXTENSIONS \cup DOCUMENT_EXTENSIONS

DirectVideos(tree, folder) ==
    {p \in tree : Parent(p) = folder /\ IsVideoFile(p) /\ Name(p)[1] # "."}

DeeperVideos(tree, folder) ==
    {p \in Below(tree, folder) : Len(p) > Len(folder) + 1 /\ IsVideoFile(p)}

IsChapter(playlist, folder) ==
    \E c \in AllChapters(playlist.chapters) : c.path = Join(folder)

\* The video list the playlist shows for a folder: the course's own for the
\* root, a chapter's for a folder that is a chapter, none otherwise.
VideoListOf(playlist, folder) ==
    IF folder = <<>> THEN playlist.videos
    ELSE IF IsChapter(playlist, folder)
    THEN (CHOOSE c \in AllChapters(playlist.chapters) : c.path = Join(folder)).videos
    ELSE <<>>

Listed(list, path, title, order) ==
    \E k \in 1..Len(list) :
        list[k].path = path /\ list[k].title = title /\ list[k].order = order

\* C18, as claimed: every folder that directly contains exactly one video file
\* and has no subfolder containing a video is absent from the chapter lists of
\* the playlist, and its video is in its parent's video list with the folder's
\* name as title and the folder's numeric sort key as order.
C18_OneVideoFolderFlattened ==
    PlaylistResponse =>
        \A folder \in Folders(event.tree) :
            (/\ Visible(folder)
             /\ Cardinality(DirectVideos(event.tree, folder)) = 1
             /\ DeeperVideos(event.tree, folder) = {})
            => /\ ~IsChapter(event.response.playlist, folder)
               /\ \A v \in DirectVideos(event.tree, folder) :
                    Listed(VideoListOf(event.response.playlist, Parent(folder)),
                           UrlPath(v), Name(folder), ExtractSortKey(Name(folder))[2])

\* What the scan of a folder yields.
Yield(tree, folder) == ScanFolder(tree, folder, GetAllFiles(tree))

\* The scan of the folder yields exactly one video and no child chapter.
YieldsOneVideo(tree, folder) ==
    Len(Yield(tree, folder).videos) = 1 /\ Yield(tree, folder).sub_chapters = <<>>

\* The outermost folder around folder of an unbroken chain of such folders.
RECURSIVE Outermost(_, _)
Outermost(tree, folder) ==
    IF Len(folder) > 1 /\ YieldsOneVideo(tree, Parent(folder))
    THEN Outermost(tree, Parent(folder))
    ELSE folder

\* C18, as the scanner does it: every folder whose scan yields exactly one
\* video and no child chapter is absent from the chapter lists of the
\* playlist, and that video is in the video list of the nearest enclosing
\* folder that is not such a folder itself (a chapter or the course), with the
\* name of the outermost such folder around it as title and that folder's
\* numeric sort key as order.
C18_WrapperFolderFlattened ==
    PlaylistResponse =>
        \A folder \in Folders(event.tree) :
            (Visible(folder) /\ YieldsOneVideo(event.tree, folder))
            => /\ ~IsChapter(event.response.playlist, folder)
               /\ LET outer == Outermost(event.tree, folder)
                  IN  Listed(VideoListOf(event.response.playlist, Parent(outer)),
                             Yield(event.tree, folder).videos[1].path,
                             Name(outer), ExtractSortKey(Name(outer))[2])

\* A wrapper folder inside a wrapper folder has been flattened: the video of
\* p/q is listed at the course under the name p.
C18_Witness ==
    /\ PlaylistResponse
    /\ \E folder \in Folders(event.tree) :
         /\ Len(folder) = 2
         /\ YieldsOneVideo(event.tree, folder)
         /\ Outermost(event.tree, folder) # folder
         /\ Listed(event.response.playlist.videos,
                   Yield(event.tree, folder).videos[1].path,
                   Name(Parent(folder)), 999999)

\* C19: every chapter of a playlist, at every depth, contains a video in its
\* subtree or has a document of its own or has a child chapter; and a folder
\* below which there is no video and no document is no chapter.
C19_NoEmptyChapter ==
    PlaylistResponse =>
        /\ \A c \in AllChapters(event.response.playlist.chapters) :
             \/ HasVideosRecursive(c.videos, c.children)
             \/ c.documents # <<>>
             \/ c.children # <<>>
        /\ \A folder \in Folders(event.tree) :
             (\A p \in Below(event.tree, folder) : ~IsVideoFile(p) /\ ~IsDocumentFile(p))
             => ~IsChapter(event.response.playlist, folder)

\* A playlist with a chapter of documents only, built from a tree that also
\* has a folder holding nothing but a subtitle.
C19_Witness ==
    /\ PlaylistResponse
    /\ \E folder \in Folders(event.tree) :
         \A p \in Below(event.tree, folder) : ~IsVideoFile(p) /\ ~IsDocumentFile(p)
    /\ \E c \in AllChapters(event.response.playlist.chapters) :
         ~HasVideosRecursive(c.videos, c.children) /\ c.documents # <<>>

\* C20: in every playlist no subtitle file is attached to two different videos.
C20_SubtitleOfOneVideo ==
    PlaylistResponse =>
        \A v1, v2 \in AllVideos(event.response.playlist) :
            v1.path # v2.path =>
                \A i \in 1..Len(v1.subtitles) : \A j \in 1..Len(v2.subtitles) :
                    v1.subtitles[i].path # v2.subtitles[j].path

\* C27: every snapshot GET /api/conversion-status returns is a state the
\* pipeline holds between two of its logical steps; in particular a snapshot
\* with phase waiting has a non-empty files list and total equal to the length
\* of that list.
C27_NoTornRead ==
    (event.kind = "status_response" /\ event.snapshot.phase = "waiting")
        => /\ event.snapshot.files # <<>>
           /\ event.snapshot.total = Len(event.snapshot.files)

\* C30: in every 206 response (the parsed range starting inside the file,
\* whatever its end) Content-Length is at least 1 and is the number of bytes of
\* the body, and the end of Content-Range is not below its start nor beyond
\* the last byte of the file.
C30_PartialContentLength ==
    (MediaResponse /\ event.response.status = 206)
        => /\ event.response.content_length >= 1
           /\ event.response.content_length = Len(event.response.body)
           /\ event.response.content_range[1] <= event.response.content_range[2]
           /\ event.response.content_range[2] <= event.response.content_range[3] - 1

\* The paths of a list of (path, mode) pairs.
PathsOf(lst) == {lst[k].path : k \in 1..Len(lst)}

\* Every probe of the scan failed.
AllProbesFailed ==
    /\ scan.video_files # <<>>
    /\ scan.idx = Len(scan.video_files)
    /\ scan.probe_failed = {scan.video_files[k] : k \in 1..Len(scan.video_files)}

\* C26: a file whose probe failed during the scan (ffprobe missing, timed
\* out, exited non-zero or printed no JSON) is in no pending list (the scan's,
\* the published one, a batch's) and the server never modifies it; and when
\* every probe failed, the scan ends with phase done, an empty pending list
\* and no batch.
C26_ProbeFailureFailsOpen ==
    /\ \A p \in scan.probe_failed :
         /\ p \notin PathsOf(scan.to_convert) \cup PathsOf(to_convert)
         /\ \A th \in Running : p \notin PathsOf(th.lst)
         /\ fs[p] \in {"orig", "gone"}
    /\ (AllProbesFailed /\ scan.pc # "check") =>
         /\ scan.pc = "exit"
         /\ Phase = "done"
         /\ to_convert = <<>>
         /\ conversion_state.files = <<>>
         /\ threads = EmptyBag

\* No probe of the scan succeeded: both videos are still the originals, the
\* pipeline is done and a POST /api/convert has just been refused.
C26_Witness ==
    /\ AllProbesFailed
    /\ Cardinality(scan.probe_failed) = NumFiles
    /\ Phase = "done"
    /\ \A p \in Files : fs[p] = "orig"
    /\ event = [kind |-> "convert_response", success |-> FALSE]

(* ---- properties of the functions ---- *)
SortItemsResult == event.kind = "sort_items"

\* The number of times a name is in a list.
Count(list, name) == Cardinality({k \in 1..Len(list) : list[k] = name})

\* C21: in the output of sort_items (which holds the names given, each as
\* often as given), a name whose sort key has the same group prefix as
\* another's and a strictly smaller number, numbers being compared as
\* integers, precedes it: a name numbered 2 precedes one numbered 10.
C21_NumericOrderWithinGroup ==
    SortItemsResult =>
        /\ Len(event.sorted) = Len(event.items)
        /\ \A name \in SortedNames : Count(event.sorted, name) = Count(event.items, name)
        /\ \A i, j \in 1..Len(event.sorted) :
             (/\ ExtractSortKey(event.sorted[i])[1] = ExtractSortKey(event.sorted[j])[1]
              /\ ExtractSortKey(event.sorted[i])[2] < ExtractSortKey(event.sorted[j])[2])
                => i < j

\* Three names given with the larger numbers first have come out with 2
\* before 10, in the group of the leading numbers and in the group "c".
C21_Witness ==
    /\ SortItemsResult
    /\ event.items = << <<"1", "0", "_", "a">>, <<"c", " ", "1", "0">>, <<"2", "_", "a">> >>
    /\ event.sorted = << <<"c", " ", "1", "0">>, <<"2", "_", "a">>, <<"1", "0", "_", "a">> >>

\* The name starts with "-" (rule 1).
Dashed(name) == name # <<>> /\ name[1] = "-"

\* A number was recognised in the name (rules 2, 3 and 4).
NumberRecognised(name) ==
    /\ ~Dashed(name)
    /\ \/ \E k \in 1..Len(StartPatterns(name)) : StartPatterns(name)[k].found
       \/ WordNumber(name).found
       \/ EndNumber(name).found

\* C22: in the output of sort_items every name in which a number was
\* recognised precedes every name that starts with "-", and every name that
\* starts with "-" precedes every name with no number.
C22_NumberedDashedPlain ==
    SortItemsResult =>
        \A i, j \in 1..Len(event.sorted) :
            /\ (NumberRecognised(event.sorted[i]) /\ Dashed(event.sorted[j])) => i < j
            /\ (/\ Dashed(event.sorted[i])
                /\ ~Dashed(event.sorted[j])
                /\ ~NumberRecognised(event.sorted[j])) => i < j

CompatibilityResult == event.kind = "check_video_compatibility"

\* Some video stream has a codec outside the browser-safe set, or is h264 in
\* an incompatible profile or in a 10-bit pixel format.
NeedsReencoding(data) ==
    \E k \in 1..Len(data.streams) :
        /\ data.streams[k].codec_type = "video"
        /\ \/ Lower(data.streams[k].codec_name) \notin BROWSER_COMPATIBLE_CODECS
           \/ /\ Lower(data.streams[k].codec_name) = "h264"
              /\ \/ Lower(data.streams[k].profile) \in INCOMPATIBLE_H264_PROFILES
                 \/ Has10Bit(Lower(data.streams[k].pix_fmt))

\* C25: for a file ffprobe could read, check_video_compatibility answers
\* transcode if some video stream needs re-encoding, otherwise remux if the
\* container is not the MP4 family, otherwise compatible; transcode wins when
\* both hold.
C25_DecisionTable ==
    (CompatibilityResult /\ event.data.ok) =>
        event.result =
            IF NeedsReencoding(event.data) THEN "transcode"
            ELSE IF event.data.format_name # MP4 THEN "remux"
            ELSE "compatible"

\* A Matroska file whose second stream is h264 High 10 has been classified
\* transcode, not remux.
C25_Witness ==
    /\ CompatibilityResult
    /\ event.data.format_name = MKV
    /\ Len(event.data.streams) = 2
    /\ event.data.streams[1] = AudioStream("aac")
    /\ event.data.streams[2] = VideoStream("H264", "High 10", "yuv420p")
    /\ event.result = "transcode"

(* ---- properties of the fingerprint and of failing listings ---- *)
\* The files the walk of generate_structure_hash covers.
WalkedFiles(tree) == {p \in tree : Visible(p)}

\* One file changed: a byte more, written half a second or a second later.
ChangedStats(st) ==
    {[st EXCEPT !.st_size = @ + 1], [st EXCEPT !.st_mtime = @ + 5],
     [st EXCEPT !.st_mtime = @ + 10]}

\* C23: when the size or the modification time of one file the scan covers
\* changes and nothing else does, the fingerprint of the next scan differs
\* from the one this scan returned.
C23_ChangeChangesFingerprint ==
    PlaylistResponse =>
        \A p \in WalkedFiles(event.tree) :
            \A st \in ChangedStats(event.stat[p]) :
                GenerateStructureHash(event.tree, [event.stat EXCEPT ![p] = st],
                                      event.listing)
                    # event.response.playlist.structure_hash

\* C24: the fingerprint a scan returns is the one a scan of the same
\* directory returns under every order in which the operating system lists
\* the entries.
C24_FingerprintIndependentOfListing ==
    PlaylistResponse =>
        \A listing \in Listings :
            GenerateStructureHash(event.tree, event.stat, listing)
                = event.response.playlist.structure_hash

\* A scan of a root with two folders and of a folder with two files, listed
\* in another order than the sorted one.
C24_Witness ==
    /\ PlaylistResponse
    /\ event.listing = "descending"
    /\ Len(KeptDirs(WalkDirs(event.tree, <<>>, event.listing))) >= 2
    /\ \E folder \in Folders(event.tree) :
         /\ Len(KeptFiles(WalkFiles(event.tree, folder, event.listing))) >= 2
         /\ WalkFiles(event.tree, folder, event.listing)
                # KeptFiles(WalkFiles(event.tree, folder, event.listing))
    /\ event.response.playlist.structure_hash
           = GenerateStructureHash(event.tree, event.stat, "ascending")

\* The tree with nothing in a folder.
Emptied(tree, folder) == tree \ Below(tree, folder)

PlaylistFields == {"chapters", "videos", "documents", "total_videos", "total_duration"}

\* C29: when the listing of a folder fails, the request is answered as for
\* the tree in which that folder is empty: the folder contributes no videos,
\* documents or chapters, and the rest of the playlist is what it is without
\* the failure.
C29_FailedFolderSkipped ==
    (event.kind = "playlist_response" /\ event.failure # NoFailure) =>
        LET without == ScanRoot(Emptied(event.tree, event.failure.folder), NoFailure)
        IN  /\ event.response.status = (IF without.raised THEN 500 ELSE 200)
            /\ event.response.status = 200 =>
                 \A field \in PlaylistFields :
                     event.response.playlist[field] = CourseToDict(without)[field]

(* ---- properties of an encoder run ---- *)
\* C28: an encoder run that was started returns, with the exit code of the
\* encoder, whatever the encoder writes to its two pipes before it exits.
C28_EncoderRunReturns ==
    (proc.pc = "stdout")
        ~> (/\ proc.pc = "returned"
            /\ proc.encoder.exited
            /\ proc.result.returncode = proc.encoder.returncode)

\* A run has returned the exit code 1 of an encoder that wrote more to each
\* stream than its pipe holds.
C28_Witness ==
    /\ proc.pc = "returned"
    /\ proc.result.returncode = 1
    /\ proc.encoder.returncode = 1
    /\ proc.encoder.written["stdout"] > PipeCapacity
    /\ proc.encoder.written["stderr"] > PipeCapacity

(* ---- properties of the counters and of the phase ---- *)
\* C35: whenever the phase is converting or done, done_count + failed_count
\* is at most total; while the phase stays converting neither counter
\* decreases; and when the phase goes from converting to done, done_count +
\* failed_count equals total.
C35_CountersConserved ==
    [][LET now == conversion_state
           next == conversion_state'
       IN  /\ next.phase \in {"converting", "done"} =>
                next.done_count + next.failed_count <= next.total
           /\ (now.phase = "converting" /\ next.phase = "converting") =>
                /\ next.done_count >= now.done_count
                /\ next.failed_count >= now.failed_count
           /\ (now.phase = "converting" /\ next.phase = "done") =>
                next.done_count + next.failed_count = next.total]_vars

\* C36: every snapshot GET /api/conversion-status returns has
\* 0 <= current_index <= total.
C36_IndexWithinTotal ==
    event.kind = "status_response" =>
        /\ 0 <= event.snapshot.current_index
        /\ event.snapshot.current_index <= event.snapshot.total

\* The order of the phases; '' is the phase before the scan has set one.
PhaseRank(phase) ==
    CASE phase = "" -> 0
      [] phase = "scanning" -> 1
      [] phase = "waiting" -> 2
      [] phase = "converting" -> 3
      [] phase = "done" -> 4

\* C37: the phase never moves backwards in the order scanning, waiting,
\* converting, done, and once the phase is done it stays done, no file is
\* replaced by a conversion, no counter changes and no encoder is run.
C37_PhaseForwardDoneAbsorbing ==
    [][/\ PhaseRank(Phase') >= PhaseRank(Phase)
       /\ Phase = "done" =>
            /\ Phase' = "done"
            /\ conversion_state'.done_count = conversion_state.done_count
            /\ conversion_state'.failed_count = conversion_state.failed_count
            /\ \A p \in Files : fs'[p] = "conv" => fs[p] = "conv"
            /\ event'.kind # "convert"]_vars

(* ---- properties of the temporary file ---- *)
\* _convert_single_video has just returned.
ConversionReturned == event.kind = "convert" /\ event.returned \in {"true", "false"}

StructurallySound(output) ==
    /\ output.exists
    /\ output.st_size > 0
    /\ output.data.ok
    /\ "video" \in StreamTypes(output.data)
    /\ output.data.format_name \in COMPATIBLE_CONTAINERS

\* C32: the file renamed over an original passes every structural check, and a
\* verification of an output that fails one of them returns False, removes
\* the output and counts the file as failed.
C32_OnlySoundOutputReplaces ==
    [][/\ (event'.kind = "convert" /\ event'.step = "rename" /\ event'.returned = "true")
            => StructurallySound(temp)
       /\ (event'.kind = "convert" /\ event'.step = "verify" /\ ~StructurallySound(temp))
            => /\ event'.returned = "false"
               /\ ~temp'.exists
               /\ conversion_state'.failed_count >= 1
               /\ fs' = fs]_vars

(* ---- properties of the pending list ---- *)
\* How the scan classified a file it has checked: compatible when its probe
\* failed, else by what ffprobe reports for it.
Classified(vf) ==
    IF vf \in scan.probe_failed THEN "compatible"
    ELSE CheckVideoCompatibility(FileProbes[FileIndex(vf)])

\* The files the scan has checked and classified remux or transcode, in the
\* order of discovery, with their mode.
RECURSIVE PendingUpTo(_)
PendingUpTo(n) ==
    IF n = 0 THEN <<>>
    ELSE LET vf == scan.video_files[n]
         IN  IF Classified(vf) = "compatible" THEN PendingUpTo(n - 1)
             ELSE Append(PendingUpTo(n - 1), [path |-> vf, mode |-> Classified(vf)])

Pending == PendingUpTo(scan.idx)

ScanEndedWaiting == scan.pc = "exit" /\ Phase = "waiting"

\* C33: when the scan has ended in waiting, the published files and the pending
\* list are the discovered videos classified remux or transcode, each once, in
\* discovery order and with that mode; no batch thread has another file in its
\* list and no conversion is run on a file classified compatible.
C33_PendingIsTheIncompatible ==
    /\ ScanEndedWaiting =>
         /\ to_convert = Pending
         /\ conversion_state.total = Len(Pending)
         /\ Len(conversion_state.files) = Len(Pending)
         /\ \A k \in 1..Len(Pending) :
              /\ conversion_state.files[k].name = Pending[k].path
              /\ conversion_state.files[k].mode = Pending[k].mode
              /\ \A j \in 1..Len(Pending) : Pending[j].path = Pending[k].path => j = k
    /\ \A th \in Running : \A k \in 1..Len(th.lst) :
         /\ Classified(th.lst[k].path) = th.lst[k].mode
         /\ th.lst[k].mode \in {"remux", "transcode"}
    /\ event.kind = "convert" => Classified(event.path) # "compatible"

\* The scan of two videos has ended in waiting with one of them pending, the
\* other one classified compatible.
C33_Witness ==
    /\ ScanEndedWaiting
    /\ Len(scan.video_files) = 2
    /\ Len(Pending) = 1
    /\ conversion_state.files = <<[name |-> Pending[1].path, mode |-> Pending[1].mode]>>
    /\ \E vf \in Files : Classified(vf) = "compatible"

(* ---- conservation of videos ---- *)
\* The video files of a tree the scanner does not skip.
VisibleVideos(tree) == {p \in tree : IsVideoFile(p) /\ Visible(p)}

\* The URL paths of the videos listed in chapters, at every depth, as many
\* times as they are listed.
RECURSIVE ListedInChapters(_)
ListedInChapters(chapters) ==
    IF chapters = <<>> THEN <<>>
    ELSE [k \in 1..Len(chapters[1].videos) |-> chapters[1].videos[k].path]
         \o ListedInChapters(chapters[1].children)
         \o ListedInChapters(Tail(chapters))

ListedVideos(playlist) ==
    [k \in 1..Len(playlist.videos) |-> playlist.videos[k].path]
    \o ListedInChapters(playlist.chapters)

\* C34: in a playlist sent for a tree all of whose folders were listed, the
\* videos listed, directly or in a chapter at any depth, are the video files in
\* non-ignored, non-dot locations, each exactly once; total_videos is their
\* number, and the video_count of every chapter is the number of videos listed
\* in it and below it, which is the number of such files below its folder.
C34_VideosConserved ==
    PlaylistResponse =>
        LET playlist == event.response.playlist
            listed   == ListedVideos(playlist)
            videos   == VisibleVideos(event.tree)
        IN  /\ {listed[k] : k \in 1..Len(listed)} = {UrlPath(p) : p \in videos}
            /\ Len(listed) = Cardinality(videos)
            /\ playlist.total_videos = Cardinality(videos)
            /\ \A c \in AllChapters(playlist.chapters) :
                 /\ c.video_count = Len(ListedInChapters(<<c>>))
                 /\ \E folder \in Folders(event.tree) :
                      /\ Join(folder) = c.path
                      /\ c.video_count = Cardinality(videos \cap Below(event.tree, folder))

\* A playlist with a video promoted through two folders, a video listed
\* directly and a chapter holding two videos.
C34_Witness ==
    /\ PlaylistResponse
    /\ event.tree = { << <<"p">>, <<"q">>, <<"v", ".", "m", "p", "4">> >>,
                      << <<"a", "1", ".", "m", "p", "4">> >>,
                      << <<"2", " ", "w">>, <<"v", ".", "m", "p", "4">> >>,
                      << <<"2", " ", "w">>, <<"u", ".", "m", "k", "v">> >> }
    /\ event.response.playlist.total_videos = 4
    /\ Len(event.response.playlist.videos) = 2
    /\ \E c \in AllChapters(event.response.playlist.chapters) : c.video_count = 2

(* ---- the order of the videos of a folder ---- *)
\* The names of the files of a flat tree, as a sequence in some order.
RECURSIVE NamesOf(_)
NamesOf(tree) ==
    IF tree = {} THEN <<>>
    ELSE LET p == CHOOSE q \in tree : TRUE IN <<Name(p)>> \o NamesOf(tree \ {p})

\* C31: the videos of a folder without subfolders are listed in ascending
\* order 1, 2, 3, ..., which is the order sort_items gives their file names.
C31_VideosListedByOrder ==
    (PlaylistResponse /\ Folders(event.tree) = {}) =>
        LET videos == event.response.playlist.videos
            names  == NamesOf(event.tree)
        IN  /\ \A k \in 1..Len(videos) : videos[k].order = k
            /\ [k \in 1..Len(videos) |-> videos[k].file] = SortItems(names, names)

(* ---- the playlist during a conversion ---- *)
\* C39: a playlist sent while a file of the course folder is being converted
\* lists no video that is the temporary conversion file, and its videos and
\* chapters are those of the playlist of the folder when no conversion runs.
C39_PlaylistSameDuringConversion ==
    (event.kind = "playlist_response" /\ event.response.status = 200) =>
        LET playlist == event.response.playlist
            idle     == CourseToDict(ScanRoot(event.idle, NoFailure))
        IN  /\ \A v \in AllVideos(playlist) : v.path # UrlPath(TempPath(event.converting))
            /\ playlist.videos = idle.videos
            /\ playlist.chapters = idle.chapters

(* ---- properties of the duration handler ---- *)
\* C40: the file a POST /api/duration request hands to the prober is the
\* course root or a path inside it, whatever the path of the body.
C40_ProbesInsideCourse ==
    (event.kind = "duration_response" /\ event.response.probed # NoPath) =>
        InsideCourse(event.response.probed)

====
